---------------------------- MODULE Spec2Model ----------------------------
(***************************************************************************)
(* Model of the template engine of applyconf.py (classes CodeBuilder and   *)
(* Template).  A template text is a sequence of one-character strings.     *)
(* Template.__init__ splits it into tokens, compiles the tokens one by one *)
(* into the lines of a Python function (kept here as records: indentation, *)
(* statement kind, operand expressions), checks the block stack, emits the *)
(* context-binding prologue and has Python compile the program.            *)
(* Template.render merges the contexts, binds the prologue variables and   *)
(* runs the program line by line.                                          *)
(***************************************************************************)
EXTENDS Integers, Sequences, FiniteSets, TLC

(***************************************************************************)
(* Text helpers: what the Python str methods used by the code compute.     *)
(***************************************************************************)

\* Characters str.strip / str.split / str.rstrip treat as whitespace.
WS == {" ", "\n", "\t"}

DigitChars == {"0", "1", "2", "3", "4", "5", "6", "7", "8", "9"}

LetterChars ==
    {"a", "b", "c", "d", "e", "f", "g", "h", "i", "j", "k", "l", "m",
     "n", "o", "p", "q", "r", "s", "t", "u", "v", "w", "x", "y", "z",
     "A", "B", "C", "D", "E", "F", "G", "H", "I", "J", "K", "L", "M",
     "N", "O", "P", "Q", "R", "S", "T", "U", "V", "W", "X", "Y", "Z"}

\* s[lo:hi] with 0-based, already clamped, non-negative Python indices.
Slice(s, lo, hi) == IF hi <= lo THEN << >> ELSE SubSeq(s, lo + 1, hi)

Max2(a, b) == IF a >= b THEN a ELSE b

Min2(a, b) == IF a <= b THEN a ELSE b

\* Python's s[lo:hi] for any integers lo, hi (negative ones count from the end).
PySlice(s, lo, hi) ==
    LET n  == Len(s)
        l0 == IF lo < 0 THEN Max2(n + lo, 0) ELSE Min2(lo, n)
        h0 == IF hi < 0 THEN Max2(n + hi, 0) ELSE Min2(hi, n)
    IN  Slice(s, l0, h0)

\* s.startswith(p)
StartsWith(s, p) == Len(s) >= Len(p) /\ SubSeq(s, 1, Len(p)) = p

\* s.find(p, from): the least 0-based index >= from where p occurs, or -1.
Find(s, p, from) ==
    LET hits == {i \in from .. (Len(s) - Len(p)) : SubSeq(s, i + 1, i + Len(p)) = p}
    IN  IF hits = {} THEN -1 ELSE CHOOSE i \in hits : \A j \in hits : i <= j

\* s.rfind(p): the greatest 0-based index where p occurs, or -1.
RFind(s, p) ==
    LET hits == {i \in 0 .. (Len(s) - Len(p)) : SubSeq(s, i + 1, i + Len(p)) = p}
    IN  IF hits = {} THEN -1 ELSE CHOOSE i \in hits : \A j \in hits : i >= j

\* p in s
Contains(s, p) == Find(s, p, 0) # -1

\* s.rstrip()
RStrip(s) ==
    LET keep == {i \in 1 .. Len(s) : s[i] \notin WS}
    IN  IF keep = {} THEN << >>
        ELSE SubSeq(s, 1, CHOOSE i \in keep : \A j \in keep : i >= j)

\* s.lstrip()
LStrip(s) ==
    LET keep == {i \in 1 .. Len(s) : s[i] \notin WS}
    IN  IF keep = {} THEN << >>
        ELSE SubSeq(s, CHOOSE i \in keep : \A j \in keep : i <= j, Len(s))

\* s.strip()
Strip(s) == LStrip(RStrip(s))

RECURSIVE SplitFrom(_, _, _)
\* The pieces of s[from:] between occurrences of the character c.
SplitFrom(s, c, from) ==
    LET k == Find(s, <<c>>, from)
    IN  IF k = -1 THEN <<Slice(s, from, Len(s))>>
        ELSE <<Slice(s, from, k)>> \o SplitFrom(s, c, k + 1)

\* s.split(c) for a one-character separator: always at least one piece.
SplitChar(s, c) == SplitFrom(s, c, 0)

RECURSIVE WordsFrom(_, _)
\* s.split(): the maximal runs of non-whitespace, none of them empty.
WordsFrom(s, from) ==
    LET starts == {i \in from .. Len(s) : s[i] \notin WS}
    IN  IF starts = {} THEN << >>
        ELSE LET b    == CHOOSE i \in starts : \A j \in starts : i <= j
                 ends == {i \in b .. Len(s) : i = Len(s) \/ s[i + 1] \in WS}
                 e    == CHOOSE i \in ends : \A j \in ends : i <= j
             IN  <<SubSeq(s, b, e)>> \o WordsFrom(s, e + 1)

SplitWords(s) == WordsFrom(s, 1)

RECURSIVE Join(_, _)
\* sep.join(parts)
Join(parts, sep) ==
    IF parts = << >> THEN << >>
    ELSE IF Len(parts) = 1 THEN parts[1]
    ELSE parts[1] \o sep \o Join(Tail(parts), sep)

\* "".join(parts)
Concat(parts) == Join(parts, << >>)


(***************************************************************************)
(* Python string literals: repr(s) as the compiler writes it into the      *)
(* program text, and the value Python reads back from that literal.        *)
(***************************************************************************)

\* repr picks double quotes when s holds a single quote and no double quote.
ReprQuote(s) ==
    IF (\E i \in 1 .. Len(s) : s[i] = "'") /\ ~(\E i \in 1 .. Len(s) : s[i] = "\"")
    THEN "\"" ELSE "'"

ReprChar(c, q) ==
    CASE c = "\\" -> <<"\\", "\\">>
      [] c = "\n" -> <<"\\", "n">>
      [] c = "\t" -> <<"\\", "t">>
      [] c = q    -> <<"\\", q>>
      [] OTHER    -> <<c>>

\* repr(s) for a str s.
PyRepr(s) ==
    LET q == ReprQuote(s)
    IN  <<q>> \o Concat([i \in 1 .. Len(s) |-> ReprChar(s[i], q)]) \o <<q>>

RECURSIVE UnescapeFrom(_, _)
UnescapeFrom(b, i) ==
    IF i > Len(b) THEN << >>
    ELSE IF b[i] = "\\" /\ i < Len(b)
         THEN <<CASE b[i + 1] = "n" -> "\n"
                  [] b[i + 1] = "t" -> "\t"
                  [] OTHER -> b[i + 1]>> \o UnescapeFrom(b, i + 2)
         ELSE <<b[i]>> \o UnescapeFrom(b, i + 1)

\* The str a quoted literal of the program text denotes.
PyLiteral(lit) == UnescapeFrom(SubSeq(lit, 2, Len(lit) - 1), 1)

(***************************************************************************)
(* Errors.  kind is the Python exception class; msg and thing are the two  *)
(* halves of the message "msg: repr(thing)" (thing alone for a KeyError).  *)
(***************************************************************************)

NoErr == [kind |-> "none", msg |-> "", thing |-> << >>]

Failure(kind, msg, thing) == [kind |-> kind, msg |-> msg, thing |-> thing]

\* Template._syntax_error: raise Error("{0}: {1}".format(msg, repr(thing)))
SyntaxErr(msg, thing) == Failure("Error", msg, thing)

(***************************************************************************)
(* Tokenizer: re.split(r"(?s)({{.*?}}|{%.*?%}|{#.*?#})", text).             *)
(***************************************************************************)

OpenOut == <<"{", "{">>

OpenAct == <<"{", "%">>

OpenCom == <<"{", "#">>

\* The closing delimiter the pattern pairs with an opening one.
Closer(open) ==
    CASE open = OpenOut -> <<"}", "}">>
      [] open = OpenAct -> <<"%", "}">>
      [] open = OpenCom -> <<"#", "}">>

RECURSIVE SplitTokens(_, _, _)
\* i: 0-based scan position; lit: 0-based start of the pending literal piece.
\* A marker matches at i when its opener is there and its closer occurs at or
\* after i + 2; the non-greedy .*? takes the nearest closer.  The pieces
\* alternate literal, marker, literal, ..., literal (empty literals kept).
SplitTokens(s, i, lit) ==
    IF i >= Len(s) THEN <<Slice(s, lit, Len(s))>>
    ELSE LET two == Slice(s, i, Min2(i + 2, Len(s)))
             j   == IF two \in {OpenOut, OpenAct, OpenCom}
                    THEN Find(s, Closer(two), i + 2) ELSE -1
         IN  IF j # -1
             THEN <<Slice(s, lit, i), Slice(s, i, j + 2)>> \o SplitTokens(s, j + 2, j + 2)
             ELSE SplitTokens(s, i + 1, lit)

Tokenize(s) == SplitTokens(s, 0, 0)

(***************************************************************************)
(* Expression compiler.  The Python expression text the code builds is     *)
(* kept as a tree:                                                         *)
(*   [op |-> "lit",  text  |-> <quoted literal>]                           *)
(*   [op |-> "name", id    |-> n]                        c_n               *)
(*   [op |-> "call", fn    |-> f, args |-> <<trees>>]    c_f(args)         *)
(*   [op |-> "dots", base  |-> tree, names |-> <<quoted literals>>]        *)
(* Each compile returns [code, vars, err]: the tree, the names registered  *)
(* in _all_vars, and the Error raised (NoErr when none).                   *)
(***************************************************************************)

\* Variant of the test whose pattern does not reach the end of the name:
\* re.match(r"[_a-zA-Z][_a-zA-Z0-9]*", what).
ValidNameStartOnly(what) == Len(what) >= 1 /\ what[1] \in LetterChars \cup {"_"}

\* Template._variable's test: re.match(r"[_a-zA-Z][_a-zA-Z0-9]*$", what).
\* ($ also matches just before one trailing newline.)
ValidName(what) ==
    LET core == IF Len(what) > 0 /\ what[Len(what)] = "\n"
                THEN SubSeq(what, 1, Len(what) - 1) ELSE what
    IN  /\ Len(core) >= 1
        /\ core[1] \in LetterChars \cup {"_"}
        /\ \A i \in 1 .. Len(core) : core[i] \in LetterChars \cup DigitChars \cup {"_"}

\* Template._variable(what, where): the error it raises, if any.
VariableErr(what) ==
    IF ValidName(what) THEN NoErr ELSE SyntaxErr("Not a valid name", what)

\* Template._isint: int(expr) succeeds.  An optional sign, then digits, with
\* single underscores allowed between digits.
IsInt(expr) ==
    LET body == IF Len(expr) > 0 /\ expr[1] \in {"+", "-"} THEN Tail(expr) ELSE expr
    IN  /\ Len(body) >= 1
        /\ \A i \in 1 .. Len(body) : body[i] \in DigitChars \cup {"_"}
        /\ body[1] # "_" /\ body[Len(body)] # "_"
        /\ \A i \in 1 .. (Len(body) - 1) : ~(body[i] = "_" /\ body[i + 1] = "_")

\* Variant of _parse_pipe that gives no parameter for empty parentheses.
ParsePipeNoEmpty(rawpipe) ==
    LET pipe  == Strip(rawpipe)
        start == Find(pipe, <<"(">>, 0)
        end   == RFind(pipe, <<")">>)
    IN  IF start = -1 THEN [func |-> pipe, params |-> << >>, err |-> NoErr]
        ELSE IF end # Len(pipe) - 1
        THEN [func |-> << >>, params |-> << >>,
              err |-> SyntaxErr("Don't understand pipe", pipe)]
        ELSE [func |-> Strip(Slice(pipe, 0, start)),
              params |-> IF Strip(Slice(pipe, start + 1, end)) = << >> THEN << >>
                         ELSE SplitChar(Slice(pipe, start + 1, end), ","),
              err |-> NoErr]

\* Template._parse_pipe: [func, params, err].
ParsePipe(rawpipe) ==
    LET pipe  == Strip(rawpipe)
        start == Find(pipe, <<"(">>, 0)
        end   == RFind(pipe, <<")">>)
    IN  IF start = -1 THEN [func |-> pipe, params |-> << >>, err |-> NoErr]
        ELSE IF end # Len(pipe) - 1
        THEN [func |-> << >>, params |-> << >>,
              err |-> SyntaxErr("Don't understand pipe", pipe)]
        ELSE [func |-> Strip(Slice(pipe, 0, start)),
              params |-> SplitChar(Slice(pipe, start + 1, end), ","),
              err |-> NoErr]

LitCode(s) == [op |-> "lit", text |-> PyRepr(s)]

NameCode(n) == [op |-> "name", id |-> n]

\* code = repr(expr): the quoted text of the digits.
IntCode(expr) == LitCode(expr)

\* "c_{0}({1},{2})" / "c_{0}({1})": the piped value, then the parameters.
\* Variant of PipeCall that passes the piped value after the parameters.
PipeCallSeedLast(func, seed, params) == [op |-> "call", fn |-> func, args |-> params \o <<seed>>]

PipeCall(func, seed, params) == [op |-> "call", fn |-> func, args |-> <<seed>> \o params]

RECURSIVE ExprCode(_)
RECURSIVE ParamCodes(_, _)
RECURSIVE PipeCodes(_, _)

\* params_code.append(...) for the compiled parameter r.  acc: [codes, vars, err].
ParamAdd(acc, r) ==
    [codes |-> Append(acc.codes, r.code), vars |-> acc.vars \cup r.vars, err |-> r.err]

\* The loop "for p in params: params_code.append(self._expr_code(p.strip()))".
ParamCodes(params, acc) ==
    IF params = << >> \/ acc.err # NoErr THEN acc
    ELSE ParamCodes(Tail(params), ParamAdd(acc, ExprCode(Strip(Head(params)))))

\* The call built from the piped value acc.code and the compiled parameters ps.
PipeApply(acc, func, ps) ==
    [code |-> PipeCall(func, acc.code, ps.codes),
     vars |-> acc.vars \cup {func} \cup ps.vars,
     err  |-> ps.err]

\* One pass of the loop "for pipe in pipes[1:]" for the parsed pipe pp:
\* _parse_pipe, then _variable(func, _all_vars), then the parameters.
PipeStep(acc, pp) ==
    IF pp.err # NoErr THEN [acc EXCEPT !.err = pp.err]
    ELSE IF ~ValidName(pp.func) THEN [acc EXCEPT !.err = VariableErr(pp.func)]
    ELSE PipeApply(acc, pp.func,
                   ParamCodes(pp.params, [codes |-> << >>, vars |-> {}, err |-> NoErr]))

\* The loop "for pipe in pipes[1:]".  acc: [code, vars, err].
PipeCodes(pipes, acc) ==
    IF pipes = << >> \/ acc.err # NoErr THEN acc
    ELSE PipeCodes(Tail(pipes), PipeStep(acc, ParsePipe(Head(pipes))))

\* "do_dots({0}, {1})": the compiled first segment, the other segments quoted.
DotsCode(base, dots) ==
    [code |-> [op |-> "dots", base |-> base.code,
               names |-> [i \in 1 .. (Len(dots) - 1) |-> PyRepr(dots[i + 1])]],
     vars |-> base.vars,
     err  |-> base.err]

\* The branch of _expr_code for an expression with "|": split on every "|".
PipeExpr(pipes) == PipeCodes(Tail(pipes), ExprCode(pipes[1]))

\* The branch of _expr_code for an expression with ".": split on every ".".
DotsExpr(dots) == DotsCode(ExprCode(dots[1]), dots)

\* Variant of the rules that looks for "." before it looks for "|".
ExprCodeOfDotsFirst(expr) ==
    IF Len(expr) = 0
    THEN [code |-> LitCode(<< >>), vars |-> {}, err |-> NoErr]
    ELSE IF Contains(expr, <<".">>) THEN DotsExpr(SplitChar(expr, "."))
    ELSE IF Contains(expr, <<"|">>) THEN PipeExpr(SplitChar(expr, "|"))
    ELSE IF IsInt(expr)
    THEN [code |-> IntCode(expr), vars |-> {}, err |-> NoErr]
    ELSE [code |-> NameCode(expr),
          vars |-> IF ValidName(expr) THEN {expr} ELSE {},
          err  |-> VariableErr(expr)]

\* _expr_code after expr = expr.strip()
ExprCodeOf(expr) ==
    IF Len(expr) = 0
    THEN [code |-> LitCode(<< >>), vars |-> {}, err |-> NoErr]
    ELSE IF Contains(expr, <<"|">>) THEN PipeExpr(SplitChar(expr, "|"))
    ELSE IF Contains(expr, <<".">>) THEN DotsExpr(SplitChar(expr, "."))
    ELSE IF IsInt(expr)
    THEN [code |-> IntCode(expr), vars |-> {}, err |-> NoErr]
    ELSE [code |-> NameCode(expr),
          vars |-> IF ValidName(expr) THEN {expr} ELSE {},
          err  |-> VariableErr(expr)]

\* Template._expr_code
ExprCode(rawexpr) == ExprCodeOf(Strip(rawexpr))

(***************************************************************************)
(* CodeBuilder and the statement compiler (Template._build_code).          *)
(* A line of the body section is [ind, kind, var, expr]: its indentation   *)
(* in spaces, the statement                                                *)
(*   "append"  append_result(to_str(expr))                                 *)
(*   "set"     c_var = expr                                                *)
(*   "if" / "elif"   if expr: / elif expr:                                 *)
(*   "else"    else:                                                       *)
(*   "for"     for c_var in expr:                                          *)
(*   "trim"    the six lines whitespace_control emits, one statement       *)
(* and its operands (NoCode / the empty name where it has none).           *)
(***************************************************************************)

\* CodeBuilder.INDENT_SIZE
INDENT_SIZE == 4

NoCode == [op |-> "none"]

\* CodeBuilder.add_line at the builder's current indentation.
AddLine(b, kind, var, expr) ==
    [b EXCEPT !.lines = Append(@, [ind |-> b.indent, kind |-> kind, var |-> var, expr |-> expr])]

\* CodeBuilder.indent
Indent(b) == [b EXCEPT !.indent = @ + INDENT_SIZE]

\* CodeBuilder.dedent; the code makes no check, and low records the least
\* indentation a dedent has left the builder at.
Dedent(b) ==
    [b EXCEPT !.indent = @ - INDENT_SIZE, !.low = Min2(@, b.indent - INDENT_SIZE)]

\* CodeBuilder.add_section: a new builder at the parent's current indentation.
AddSection(indent) == [lines |-> << >>, indent |-> indent, low |-> indent]

\* whitespace_control's test for the trim flag.
HasTrim(token) == PySlice(token, 2, 3) = <<"-">>

\* whitespace_control's return value: the marker's content.
MarkerContent(token) ==
    IF HasTrim(token) THEN Strip(PySlice(token, 3, -2)) ELSE Strip(PySlice(token, 2, -2))

\* whitespace_control's effect on the body section.
\* The trimming statement is one "trim" line at the current indentation; the
\* indent and dedent calls made around its inner lines follow in the code's order.
WhitespaceControl(b, token) ==
    IF HasTrim(token)
    THEN Dedent(Dedent(Indent(Dedent(Indent(Indent(AddLine(b, "trim", << >>, NoCode)))))))
    ELSE b

\* " ".join(words[k:]) for a 0-based k.
JoinWords(words, k) == Join(SubSeq(words, k + 1, Len(words)), <<" ">>)

\* The compiler's state while it scans: the body builder, the stack of open
\* blocks, the two variable sets, and the error raised (NoErr while none).
Raise(st, e) == [st EXCEPT !.err = e]

\* The names an expression registered in _all_vars, and its error if any.
Register(st, r) == [st EXCEPT !.all_vars = @ \cup r.vars, !.err = r.err]

Top(stack) == stack[Len(stack)]

\* code.add_line("append_result(to_str({0}))".format(expr)) for the compiled r.
EmitOutput(st, r) ==
    IF r.err # NoErr THEN Register(st, r)
    ELSE [Register(st, r) EXCEPT !.code = AddLine(@, "append", << >>, r.code)]

\* {{ expr }}
BuildOutput(st, token) ==
    EmitOutput([st EXCEPT !.code = WhitespaceControl(@, token)], ExprCode(MarkerContent(token)))

\* code.add_line("c_{0} = {1}".format(words[1], ...)) for the compiled r.
EmitSet(st, name, r) ==
    IF r.err # NoErr THEN Register(st, r)
    ELSE [Register(st, r) EXCEPT !.code = AddLine(@, "set", name, r.code)]

\* Variant of "set" that files the assigned name in _all_vars.
BuildSetRegistering(st, token, words) ==
    IF Len(words) < 4 \/ words[3] # <<"=">>
    THEN Raise(st, SyntaxErr("Don't understand set", token))
    ELSE IF ~ValidName(words[2]) THEN Raise(st, VariableErr(words[2]))
    ELSE [EmitSet(st, words[2], ExprCode(JoinWords(words, 3)))
              EXCEPT !.all_vars = @ \cup {words[2]}]

\* Variant of "set" that files the assigned name with the loop variables, so
\* that the prologue does not bind it.
BuildSetLocal(st, token, words) ==
    IF Len(words) < 4 \/ words[3] # <<"=">>
    THEN Raise(st, SyntaxErr("Don't understand set", token))
    ELSE IF ~ValidName(words[2]) THEN Raise(st, VariableErr(words[2]))
    ELSE [EmitSet(st, words[2], ExprCode(JoinWords(words, 3)))
              EXCEPT !.loop_vars = @ \cup {words[2]}]

\* {% set <variable> = <expr...> %}
BuildSet(st, token, words) ==
    IF Len(words) < 4 \/ words[3] # <<"=">>
    THEN Raise(st, SyntaxErr("Don't understand set", token))
    ELSE IF ~ValidName(words[2]) THEN Raise(st, VariableErr(words[2]))
    ELSE EmitSet(st, words[2], ExprCode(JoinWords(words, 3)))

\* code.add_line("if {0}:".format(expr)); code.indent()
EmitIf(st, r) ==
    IF r.err # NoErr THEN Register(st, r)
    ELSE [Register(st, r) EXCEPT !.code = Indent(AddLine(@, "if", << >>, r.code))]

\* {% if <expr...> %}
BuildIf(st, token, words) ==
    IF Len(words) < 2 THEN Raise(st, SyntaxErr("Don't understand if", token))
    ELSE EmitIf([st EXCEPT !.ops_stack = Append(@, "if")], ExprCode(JoinWords(words, 1)))

\* code.dedent(); code.add_line("elif {0}:".format(expr)); code.indent()
EmitElif(st, r) ==
    IF r.err # NoErr THEN Register(st, r)
    ELSE [Register(st, r) EXCEPT !.code = Indent(AddLine(Dedent(@), "elif", << >>, r.code))]

\* {% elif <expr...> %}
BuildElif(st, token, words) ==
    IF Len(words) < 2 THEN Raise(st, SyntaxErr("Don't understand elif", token))
    ELSE IF st.ops_stack = << >> THEN Raise(st, SyntaxErr("Mismatched elif", token))
    ELSE IF Top(st.ops_stack) # "if" THEN Raise(st, SyntaxErr("Mismatched elif", token))
    ELSE EmitElif(st, ExprCode(JoinWords(words, 1)))

\* Variant of BuildElse that adds the branch without leaving the block's body.
BuildElseNoDedent(st, token, words) ==
    IF Len(words) # 1 THEN Raise(st, SyntaxErr("Don't understand else", token))
    ELSE IF st.ops_stack = << >> THEN Raise(st, SyntaxErr("Mismatched else", token))
    ELSE IF Top(st.ops_stack) # "if" THEN Raise(st, SyntaxErr("Mismatched else", token))
    ELSE [st EXCEPT !.code = Indent(AddLine(@, "else", << >>, NoCode))]

\* {% else %}
BuildElse(st, token, words) ==
    IF Len(words) # 1 THEN Raise(st, SyntaxErr("Don't understand else", token))
    ELSE IF st.ops_stack = << >> THEN Raise(st, SyntaxErr("Mismatched else", token))
    ELSE IF Top(st.ops_stack) # "if" THEN Raise(st, SyntaxErr("Mismatched else", token))
    ELSE [st EXCEPT !.code = Indent(AddLine(Dedent(@), "else", << >>, NoCode))]

\* code.add_line("for c_{0} in {1}:".format(words[1], ...)); code.indent()
EmitFor(st, name, r) ==
    IF r.err # NoErr THEN Register(st, r)
    ELSE [Register(st, r) EXCEPT !.code = Indent(AddLine(@, "for", name, r.code))]

\* Variant of RegisterLoopVar that files the loop variable with the other names.
RegisterLoopVarAsName(st, name) == [st EXCEPT !.all_vars = @ \cup {name}]

\* self._variable(words[1], self._loop_vars) for a valid name.
RegisterLoopVar(st, name) == [st EXCEPT !.loop_vars = @ \cup {name}]

\* {% for <variable> in <expr...> %}
BuildFor(st, token, words) ==
    IF Len(words) < 4 \/ words[3] # <<"i", "n">>
    THEN Raise(st, SyntaxErr("Don't understarnd for", token))
    ELSE IF ~ValidName(words[2])
    THEN Raise([st EXCEPT !.ops_stack = Append(@, "for")], VariableErr(words[2]))
    ELSE EmitFor(RegisterLoopVar([st EXCEPT !.ops_stack = Append(@, "for")], words[2]),
                 words[2], ExprCode(JoinWords(words, 3)))

\* The text of a block kind on the stack.
KindName(kind) == IF kind = "if" THEN <<"i", "f">> ELSE <<"f", "o", "r">>

\* Variant of BuildEnd that closes the innermost block whatever its kind.
BuildEndAnyKind(st, token, words) ==
    IF Len(words) # 1 THEN Raise(st, SyntaxErr("Don't understand end", token))
    ELSE IF st.ops_stack = << >> THEN Raise(st, SyntaxErr("Too many ends", token))
    ELSE [st EXCEPT !.ops_stack = SubSeq(@, 1, Len(@) - 1), !.code = Dedent(@)]

\* {% end<kind> %}
BuildEnd(st, token, words) ==
    IF Len(words) # 1 THEN Raise(st, SyntaxErr("Don't understand end", token))
    ELSE IF st.ops_stack = << >> THEN Raise(st, SyntaxErr("Too many ends", token))
    ELSE IF KindName(Top(st.ops_stack)) # PySlice(words[1], 3, Len(words[1]))
    THEN Raise([st EXCEPT !.ops_stack = SubSeq(@, 1, Len(@) - 1)],
               SyntaxErr("Mismatched end tag", PySlice(words[1], 3, Len(words[1]))))
    ELSE [st EXCEPT !.ops_stack = SubSeq(@, 1, Len(@) - 1), !.code = Dedent(@)]

\* The dispatch on words[0] (an IndexError when there is no word).
Dispatch(st, token, words) ==
    IF words = << >>
    THEN Raise(st, Failure("IndexError", "list index out of range", << >>))
    ELSE CASE words[1] = <<"s", "e", "t">>      -> BuildSet(st, token, words)
           [] words[1] = <<"i", "f">>           -> BuildIf(st, token, words)
           [] words[1] = <<"e", "l", "i", "f">> -> BuildElif(st, token, words)
           [] words[1] = <<"e", "l", "s", "e">> -> BuildElse(st, token, words)
           [] words[1] = <<"f", "o", "r">>      -> BuildFor(st, token, words)
           [] StartsWith(words[1], <<"e", "n", "d">>) -> BuildEnd(st, token, words)
           [] OTHER -> Raise(st, SyntaxErr("Don't understand tag", words[1]))

\* {% ... %}: whitespace control, then the words of the content.
BuildAction(st, rawtoken) ==
    Dispatch([st EXCEPT !.code = WhitespaceControl(@, rawtoken)],
             MarkerContent(rawtoken), SplitWords(MarkerContent(rawtoken)))

\* One pass of "for token in tokens".
BuildToken(st, token) ==
    IF StartsWith(token, OpenCom)
    THEN [st EXCEPT !.code = WhitespaceControl(@, token)]
    ELSE IF StartsWith(token, OpenOut) THEN BuildOutput(st, token)
    ELSE IF StartsWith(token, OpenAct) THEN BuildAction(st, token)
    ELSE IF token # << >>
    THEN [st EXCEPT !.code = AddLine(@, "append", << >>, LitCode(token))]
    ELSE st

(***************************************************************************)
(* Python's compilation of the program text (exec in get_globals): the     *)
(* text is rejected when a block header has no indented body or when an    *)
(* elif / else does not continue an if chain.                              *)
(***************************************************************************)

IsHeader(line) == line.kind \in {"if", "elif", "else", "for"}

\* Line i is a header whose body is missing.
EmptyBlockAt(lines, i) ==
    /\ IsHeader(lines[i])
    /\ (i = Len(lines) \/ lines[i + 1].ind <= lines[i].ind)

\* Line i is an elif / else that no if / elif of its own level precedes.
DanglingBranchAt(lines, i) ==
    /\ lines[i].kind \in {"elif", "else"}
    /\ ~(\E j \in 1 .. (i - 1) :
            /\ lines[j].ind = lines[i].ind
            /\ lines[j].kind \in {"if", "elif"}
            /\ \A k \in (j + 1) .. (i - 1) : lines[k].ind > lines[i].ind)

\* Line i is indented although the line before it opens no block.
UnexpectedIndentAt(lines, i) ==
    i > 1 /\ lines[i].ind > lines[i - 1].ind /\ ~IsHeader(lines[i - 1])

\* The SyntaxError (IndentationError is one) exec raises, NoErr when none.
PyCompileErr(lines) ==
    IF \E i \in 1 .. Len(lines) :
           EmptyBlockAt(lines, i) \/ DanglingBranchAt(lines, i) \/ UnexpectedIndentAt(lines, i)
    THEN Failure("SyntaxError", "invalid syntax", << >>)
    ELSE NoErr

(***************************************************************************)
(* Run-time values: [t, v] with t the Python type.                         *)
(*   "str" (v: characters)  "int"  "bool"  "list" (v: values)              *)
(*   "map" (v: the [k, v] items of a dict, in insertion order)             *)
(*   "fn" (v: a callable's name)                                           *)
(*   "obj" (v: [attrs, items], the [k, v] attributes of an instance and    *)
(*          the [k, v] items its __getitem__ answers for)                  *)
(***************************************************************************)

VStr(s) == [t |-> "str", v |-> s]

VInt(n) == [t |-> "int", v |-> n]

VBool(b) == [t |-> "bool", v |-> b]

VList(xs) == [t |-> "list", v |-> xs]

VMap(f) == [t |-> "map", v |-> f]

VFn(n) == [t |-> "fn", v |-> n]

VObj(attrs, items) == [t |-> "obj", v |-> [attrs |-> attrs, items |-> items]]

VNone == [t |-> "none", v |-> 0]

Ok(v) == [ok |-> TRUE, v |-> v, err |-> NoErr]

Bad(e) == [ok |-> FALSE, v |-> VNone, err |-> e]

\* Python truth value, as "if" tests it.
Truthy(x) ==
    CASE x.t = "str"  -> x.v # << >>
      [] x.t = "int"  -> x.v # 0
      [] x.t = "bool" -> x.v
      [] x.t = "list" -> x.v # << >>
      [] x.t = "map"  -> x.v # << >>
      [] x.t = "fn"   -> TRUE
      [] x.t = "obj"  -> TRUE
      [] OTHER        -> FALSE

DigitSeq == <<"0", "1", "2", "3", "4", "5", "6", "7", "8", "9">>

RECURSIVE NatStr(_)
NatStr(n) == IF n < 10 THEN <<DigitSeq[n + 1]>> ELSE NatStr(n \div 10) \o <<DigitSeq[(n % 10) + 1]>>

\* str(n) for an int.
IntStr(n) == IF n < 0 THEN <<"-">> \o NatStr(0 - n) ELSE NatStr(n)

RECURSIVE ReprValue(_)
\* repr(x); a list or a map shows the repr of its elements.  (The text of a
\* callable holds its address; it is kept as the callable's name.)
ReprValue(x) ==
    CASE x.t = "str"  -> PyRepr(x.v)
      [] x.t = "int"  -> IntStr(x.v)
      [] x.t = "bool" -> IF x.v THEN <<"T", "r", "u", "e">> ELSE <<"F", "a", "l", "s", "e">>
      [] x.t = "list" -> <<"[">> \o Join([i \in 1 .. Len(x.v) |-> ReprValue(x.v[i])], <<",", " ">>)
                               \o <<"]">>
      [] x.t = "map"  -> <<"{">> \o Join([i \in 1 .. Len(x.v) |->
                                        PyRepr(x.v[i].k) \o <<":", " ">> \o ReprValue(x.v[i].v)],
                                    <<",", " ">>) \o <<"}">>
      [] x.t = "fn"   -> <<"<">> \o x.v \o <<">">>
      [] x.t = "obj"  -> <<"<", "o", "b", "j", ">">>
      [] OTHER        -> <<"N", "o", "n", "e">>

\* to_str = str
ToStr(x) == IF x.t = "str" THEN x.v ELSE ReprValue(x)

\* What "for ... in x" iterates over: the elements of a list, the characters
\* of a str, the keys of a map; anything else is not iterable.
Iterate(x) ==
    CASE x.t = "list" -> Ok(x)
      [] x.t = "str"  -> Ok(VList([i \in 1 .. Len(x.v) |-> VStr(<<x.v[i]>>)]))
      [] x.t = "map"  -> Ok(VList([i \in 1 .. Len(x.v) |-> VStr(x.v[i].k)]))
      [] OTHER        -> Bad(Failure("TypeError", "object is not iterable", << >>))

LowerSeq == <<"a", "b", "c", "d", "e", "f", "g", "h", "i", "j", "k", "l", "m",
              "n", "o", "p", "q", "r", "s", "t", "u", "v", "w", "x", "y", "z">>

UpperSeq == <<"A", "B", "C", "D", "E", "F", "G", "H", "I", "J", "K", "L", "M",
              "N", "O", "P", "Q", "R", "S", "T", "U", "V", "W", "X", "Y", "Z">>

UpperChar(c) ==
    IF \E i \in 1 .. Len(LowerSeq) : LowerSeq[i] = c
    THEN UpperSeq[CHOOSE i \in 1 .. Len(LowerSeq) : LowerSeq[i] = c]
    ELSE c

\* The callables a context may hold (the filters of the class docstring):
\*   upper = lambda s: s.upper()
\*   cat   = lambda *a: "".join(map(str, a))
\*   add   = lambda a, b: a + b
\*   mk    = lambda: {"n": "M"}
CallFn(f, args) ==
    CASE f = <<"u", "p", "p", "e", "r">> ->
           IF Len(args) # 1 THEN Bad(Failure("TypeError", "wrong number of arguments", f))
           ELSE IF args[1].t # "str"
           THEN Bad(Failure("AttributeError", "no attribute", <<"u", "p", "p", "e", "r">>))
           ELSE Ok(VStr([i \in 1 .. Len(args[1].v) |-> UpperChar(args[1].v[i])]))
      [] f = <<"c", "a", "t">> ->
           Ok(VStr(Concat([i \in 1 .. Len(args) |-> ToStr(args[i])])))
      [] f = <<"a", "d", "d">> ->
           IF Len(args) # 2 THEN Bad(Failure("TypeError", "wrong number of arguments", f))
           ELSE IF args[1].t = "int" /\ args[2].t = "int"
           THEN Ok(VInt(args[1].v + args[2].v))
           ELSE IF args[1].t = "str" /\ args[2].t = "str"
           THEN Ok(VStr(args[1].v \o args[2].v))
           ELSE Bad(Failure("TypeError", "unsupported operand types", f))
      [] f = <<"m", "k">> ->
           IF Len(args) # 0 THEN Bad(Failure("TypeError", "wrong number of arguments", f))
           ELSE Ok(VMap(<<[k |-> <<"n">>, v |-> VStr(<<"M">>)]>>))
      [] OTHER -> Bad(Failure("TypeError", "wrong number of arguments", f))

\* Calling x(*args): x must be callable.
Call(x, args) ==
    IF x.t = "fn" THEN CallFn(x.v, args)
    ELSE Bad(Failure("TypeError", "object is not callable", << >>))

\* The value filed under k in a sequence of [k, v], else the exception.
Lookup(pairs, k, missing) ==
    IF \E i \in 1 .. Len(pairs) : pairs[i].k = k
    THEN Ok(pairs[CHOOSE i \in 1 .. Len(pairs) : pairs[i].k = k].v)
    ELSE Bad(missing)

\* getattr(value, dot).  Of the modelled values only an instance has
\* attributes of the names the templates use after a dot.
GetAttr(value, dot) ==
    IF value.t = "obj" THEN Lookup(value.v.attrs, dot, Failure("AttributeError", "", dot))
    ELSE Bad(Failure("AttributeError", "", dot))

\* value[dot] for a str dot.
GetItem(value, dot) ==
    CASE value.t = "map" -> Lookup(value.v, dot, Failure("KeyError", "", dot))
      [] value.t = "obj" -> Lookup(value.v.items, dot, Failure("KeyError", "", dot))
      [] OTHER -> Bad(Failure("TypeError", "object is not subscriptable", dot))

\* Variant of the lookup that asks for the item first and for the attribute
\* when there is no such item.
DotValueItemFirst(value, dot, attr) ==
    IF GetItem(value, dot).ok THEN GetItem(value, dot) ELSE attr

\* try: value = getattr(value, dot)  except AttributeError: value = value[dot]
DotValue(value, dot, attr) == IF attr.ok THEN attr ELSE GetItem(value, dot)

\* Variant of the call test that leaves a callable as it is.
KeepCallable(got) == got

\* if callable(value): value = value()
CallIfCallable(got) == IF got.ok /\ got.v.t = "fn" THEN Call(got.v, << >>) ELSE got

\* One turn of the loop of _do_dots.
DotStep(value, dot) == CallIfCallable(DotValue(value, dot, GetAttr(value, dot)))

RECURSIVE DoDots(_, _)

\* The rest of the loop after a turn that gave res.
DoDotsFrom(res, dots) == IF res.ok THEN DoDots(res.v, dots) ELSE res

\* Template._do_dots: per name getattr, else item lookup; a callable result
\* is called with no arguments.
DoDots(value, dots) ==
    IF dots = << >> THEN Ok(value)
    ELSE DoDotsFrom(DotStep(value, PyLiteral(Head(dots))), Tail(dots))

RECURSIVE Eval(_, _)
RECURSIVE EvalArgs(_, _, _)

\* The arguments of a call, left to right; acc: [ok, vals, err].
EvalArgs(codes, locals, acc) ==
    IF codes = << >> \/ ~acc.ok THEN acc
    ELSE LET r == Eval(Head(codes), locals)
         IN  EvalArgs(Tail(codes), locals,
                      [ok |-> r.ok, vals |-> Append(acc.vals, r.v), err |-> r.err])

\* The value of an expression of the program in the function's locals.
Eval(code, locals) ==
    CASE code.op = "lit" -> Ok(VStr(PyLiteral(code.text)))
      [] code.op = "name" ->
           IF code.id \in DOMAIN locals THEN Ok(locals[code.id])
           ELSE Bad(Failure("UnboundLocalError", "local variable referenced before assignment",
                            code.id))
      [] code.op = "call" ->
           IF code.fn \notin DOMAIN locals
           THEN Bad(Failure("UnboundLocalError", "local variable referenced before assignment",
                            code.fn))
           ELSE LET as == EvalArgs(code.args, locals, [ok |-> TRUE, vals |-> << >>, err |-> NoErr])
                IN  IF as.ok THEN Call(locals[code.fn], as.vals) ELSE Bad(as.err)
      [] code.op = "dots" ->
           LET b == Eval(code.base, locals)
           IN  IF b.ok THEN DoDots(b.v, code.names) ELSE b
      [] OTHER -> Bad(Failure("SyntaxError", "invalid syntax", << >>))


(***************************************************************************)
(* Running the program.  The machine is [pc, back, iters, locals, result,  *)
(* err]: the line to run next, whether a "for" line is re-entered from the *)
(* end of its body, the pending items of the open loops (innermost last),  *)
(* the function's local variables c_<name>, the list "result", and the     *)
(* exception raised (NoErr while none).                                    *)
(***************************************************************************)

\* The first line after line i that is not inside the block line i opens.
BlockEnd(lines, i) ==
    LET later == {j \in (i + 1) .. Len(lines) : lines[j].ind <= lines[i].ind}
    IN  IF later = {} THEN Len(lines) + 1
        ELSE CHOOSE j \in later : \A k \in later : j <= k

\* The header of the block a line of indentation d (before line j) lies in.
Enclosing(lines, j, d) ==
    LET heads == {k \in 1 .. (j - 1) : k <= Len(lines) /\ lines[k].ind < d}
    IN  CHOOSE k \in heads : \A h \in heads : k >= h

\* Variant of ChainEnd that stops at the next branch of the same chain.
ChainEndAtNextBranch(lines, h) == BlockEnd(lines, h)

\* The first line after the if / elif / else chain that header h belongs to.
ChainEnd(lines, h) ==
    LET later == {m \in (h + 1) .. Len(lines) :
                     \/ lines[m].ind < lines[h].ind
                     \/ (lines[m].ind = lines[h].ind /\ lines[m].kind \notin {"elif", "else"})}
    IN  IF later = {} THEN Len(lines) + 1
        ELSE CHOOSE m \in later : \A k \in later : m <= k

RECURSIVE After(_, _, _)
\* Where control goes once a statement of indentation d is complete and j is
\* the next line of the text: on to j, back to the "for" whose body ended,
\* or past the rest of the if chain whose branch ended.
After(lines, j, d) ==
    IF j <= Len(lines) /\ lines[j].ind >= d THEN [pc |-> j, back |-> FALSE]
    ELSE IF d <= lines[1].ind THEN [pc |-> Len(lines) + 1, back |-> FALSE]
    ELSE LET h == Enclosing(lines, j, d)
         IN  IF lines[h].kind = "for" THEN [pc |-> h, back |-> TRUE]
             ELSE After(lines, ChainEnd(lines, h), lines[h].ind)

Goto(m, target) == [m EXCEPT !.pc = target.pc, !.back = target.back]

Throw(m, e) == [m EXCEPT !.err = e]

Bind(locals, name, value) ==
    [n \in DOMAIN locals \cup {name} |-> IF n = name THEN value ELSE locals[n]]

\* Variant of TrimLast that leaves "result" as it is.
TrimNothing(result) == result

\* The statement whitespace_control emits, applied to the last chunk of
\* "result": nothing when result is empty; without a newline in the chunk,
\* rstrip it; else keep the text before its last newline and rstrip the rest.
TrimLast(result) ==
    IF Len(result) = 0 THEN result
    ELSE LET chunk   == result[Len(result)]
             last_nl == RFind(chunk, <<"\n">>)
         IN  [result EXCEPT ![Len(result)] =
                 IF last_nl = -1 THEN RStrip(chunk)
                 ELSE Slice(chunk, 0, last_nl) \o RStrip(Slice(chunk, last_nl, Len(chunk)))]

\* "if" / "elif" with a false condition: on to the next elif of the chain,
\* into the body of its else, or past the chain.
NextBranch(lines, i) ==
    LET j == BlockEnd(lines, i)
    IN  IF j <= Len(lines) /\ lines[j].ind = lines[i].ind /\ lines[j].kind = "elif"
        THEN [pc |-> j, back |-> FALSE]
        ELSE IF j <= Len(lines) /\ lines[j].ind = lines[i].ind /\ lines[j].kind = "else"
        THEN [pc |-> j + 1, back |-> FALSE]
        ELSE After(lines, j, lines[i].ind)

\* "for c_var in expr:" entered from above: evaluate expr and take its items.
ForEnter(lines, m) ==
    LET line == lines[m.pc]
        r    == Eval(line.expr, m.locals)
        it   == IF r.ok THEN Iterate(r.v) ELSE r
    IN  IF ~it.ok THEN Throw(m, it.err)
        ELSE IF it.v.v = << >> THEN Goto(m, After(lines, BlockEnd(lines, m.pc), line.ind))
        ELSE [m EXCEPT !.locals = Bind(@, line.var, Head(it.v.v)),
                       !.iters  = Append(@, Tail(it.v.v)),
                       !.pc = m.pc + 1, !.back = FALSE]

\* Variant of ForNext that leaves the loop after its first pass.
ForNextLeave(lines, m) ==
    Goto([m EXCEPT !.iters = SubSeq(@, 1, Len(@) - 1)],
         After(lines, BlockEnd(lines, m.pc), lines[m.pc].ind))

\* "for" re-entered from the end of its body: the next item, or leave.
ForNext(lines, m) ==
    LET line == lines[m.pc]
        rest == m.iters[Len(m.iters)]
    IN  IF rest = << >>
        THEN Goto([m EXCEPT !.iters = SubSeq(@, 1, Len(@) - 1)],
                  After(lines, BlockEnd(lines, m.pc), line.ind))
        ELSE [m EXCEPT !.locals = Bind(@, line.var, Head(rest)),
                       !.iters[Len(m.iters)] = Tail(rest),
                       !.pc = m.pc + 1, !.back = FALSE]

\* One statement of the body of render_function.
ExecStep(lines, m) ==
    LET line == lines[m.pc]
        next == After(lines, m.pc + 1, line.ind)
    IN  CASE line.kind = "append" ->
               LET r == Eval(line.expr, m.locals)
               IN  IF r.ok THEN Goto([m EXCEPT !.result = Append(@, ToStr(r.v))], next)
                   ELSE Throw(m, r.err)
          [] line.kind = "set" ->
               LET r == Eval(line.expr, m.locals)
               IN  IF r.ok THEN Goto([m EXCEPT !.locals = Bind(@, line.var, r.v)], next)
                   ELSE Throw(m, r.err)
          [] line.kind = "trim" -> Goto([m EXCEPT !.result = TrimLast(@)], next)
          [] line.kind \in {"if", "elif"} ->
               LET r == Eval(line.expr, m.locals)
               IN  IF ~r.ok THEN Throw(m, r.err)
                   ELSE IF Truthy(r.v) THEN [m EXCEPT !.pc = m.pc + 1, !.back = FALSE]
                   ELSE Goto(m, NextBranch(lines, m.pc))
          [] line.kind = "for" -> IF m.back THEN ForNext(lines, m) ELSE ForEnter(lines, m)
          [] OTHER -> Throw(m, Failure("SyntaxError", "invalid syntax", << >>))

(***************************************************************************)
(* Template.render's context merge and the prologue of render_function.    *)
(***************************************************************************)

EmptyContext == << >>

\* Variant of Merge in which the mapping updated keeps its own values.
MergeKeep(a, b) == [n \in DOMAIN a \cup DOMAIN b |-> IF n \in DOMAIN a THEN a[n] ELSE b[n]]

\* dict(a) updated with b
Merge(a, b) == [n \in DOMAIN a \cup DOMAIN b |-> IF n \in DOMAIN b THEN b[n] ELSE a[n]]

RECURSIVE MergeAll(_, _)
\* "for context in contexts: self._context.update(context)"
MergeAll(acc, cs) == IF cs = << >> THEN acc ELSE MergeAll(Merge(acc, Head(cs)), Tail(cs))

\* Variant of PrologueVars that binds nothing at entry.
PrologueNone(all, loop) == {}

\* The names the prologue "c_{0} = context['{0}']" binds.
PrologueVars(all, loop) == all \ loop


(***************************************************************************)
(* State.                                                                  *)
(***************************************************************************)

VARIABLES
    src,              \* the description the template text was written from (ghost)
    text,             \* Template.__init__'s text argument
    contexts,         \* Template.__init__'s *contexts argument
    selfContext,      \* Template._context
    phase,            \* "new", "build", "failed" (__init__ raised), "ready",
                      \* "running", "done", "rfailed" (render raised)
    err,              \* the exception raised, NoErr while none
    codeIndent,       \* _indent of the outer CodeBuilder "code"
    tokens,           \* the pieces re.split returned
    tpos,             \* the piece the token loop is at (1-based)
    body_code,        \* the body section: [lines, indent]
    ops_stack,        \* the open blocks, innermost last
    all_vars,         \* Template._all_vars
    loop_vars,        \* Template._loop_vars
    render_function,  \* the compiled program: [vars, lines]
    caller_context,   \* render's context argument, the caller's mapping
    render_context,   \* render's merged context
    machine,          \* the running render_function
    output,           \* what render returned
    driver            \* a build driver at work on one source: its options, the
                      \* sections of the rendering, the output file system

templateVars ==
    <<src, text, contexts, selfContext, phase, err, codeIndent, tokens, tpos, body_code,
      ops_stack, all_vars, loop_vars, render_function, caller_context, render_context,
      machine, output>>

vars == <<src, text, contexts, selfContext, phase, err, codeIndent, tokens, tpos, body_code,
          ops_stack, all_vars, loop_vars, render_function, caller_context, render_context,
          machine, output, driver>>

NoProgram == [vars |-> {}, lines |-> << >>]

IdleMachine ==
    [pc |-> 0, back |-> FALSE, iters |-> << >>, locals |-> EmptyContext,
     result |-> << >>, err |-> NoErr]

compileVars == <<codeIndent, tokens, tpos, body_code, ops_stack, all_vars, loop_vars,
                 render_function>>

renderVars == <<caller_context, render_context, machine, output>>

(***************************************************************************)
(* Template.__init__, first part: resolve the text, copy the contexts,     *)
(* lay out the function (header, prologue section, body section, return)   *)
(* and split the text.  "if not text" sends the empty text to              *)
(* open(filename) with filename None, which raises.                        *)
(***************************************************************************)
Construct ==
    /\ phase = "new"
    /\ IF text = << >>
       THEN /\ phase' = "failed"
            /\ err' = Failure("TypeError", "expected str, bytes or os.PathLike object", << >>)
            /\ UNCHANGED selfContext
            /\ UNCHANGED compileVars
       ELSE LET code0 == [lines |-> << >>, indent |-> 0, low |-> 0]
                code1 == Indent(code0)
                body  == AddSection(code1.indent)
                code2 == Dedent(code1)
            IN  /\ codeIndent' = code2.indent
                /\ body_code' = body
                /\ selfContext' = MergeAll(EmptyContext, contexts)
                /\ tokens' = Tokenize(text)
                /\ tpos' = 1
                /\ phase' = "build"
                /\ UNCHANGED <<err, ops_stack, all_vars, loop_vars, render_function>>
    /\ UNCHANGED <<driver, src, text, contexts>>
    /\ UNCHANGED renderVars

(***************************************************************************)
(* One pass of the token loop of _build_code.                              *)
(***************************************************************************)
BuildResult ==
    BuildToken([code |-> body_code, ops_stack |-> ops_stack, all_vars |-> all_vars,
                loop_vars |-> loop_vars, err |-> NoErr],
               tokens[tpos])

\* The builder's fields and the loop position after the pass that left st.
Built(st) ==
    /\ body_code' = st.code
    /\ ops_stack' = st.ops_stack
    /\ all_vars' = st.all_vars
    /\ loop_vars' = st.loop_vars
    /\ err' = st.err
    /\ tpos' = IF st.err = NoErr THEN tpos + 1 ELSE tpos
    /\ phase' = IF st.err = NoErr THEN "build" ELSE "failed"

Build ==
    /\ phase = "build"
    /\ tpos <= Len(tokens)
    /\ Built(BuildResult)
    /\ UNCHANGED <<driver, src, text, contexts, selfContext, codeIndent, tokens, render_function>>
    /\ UNCHANGED renderVars

(***************************************************************************)
(* The end of _build_code and of __init__: the check of the block stack,   *)
(* the prologue, and get_globals (the assert on the outer indentation and  *)
(* Python's compilation of the text).                                      *)
(***************************************************************************)
\* The error at the end of __init__, if any, for the block stack left by the
\* token loop, the outer builder's indentation and the lines of the body.
FinishErrFor(stack, indent, lines) ==
    IF stack # << >> THEN SyntaxErr("Unmatched action tag", KindName(stack[Len(stack)]))
    ELSE IF indent # 0 THEN Failure("AssertionError", "", << >>)
    ELSE PyCompileErr(lines)

\* Variant of FinishErr that reports the outermost open block.
FinishErrOutermost ==
    IF ops_stack # << >>
    THEN SyntaxErr("Unmatched action tag", KindName(ops_stack[1]))
    ELSE IF codeIndent # 0 THEN Failure("AssertionError", "", << >>)
    ELSE PyCompileErr(body_code.lines)

FinishErr == FinishErrFor(ops_stack, codeIndent, body_code.lines)

Finish ==
    /\ phase = "build"
    /\ tpos > Len(tokens)
    /\ err' = FinishErr
    /\ IF FinishErr = NoErr
       THEN /\ phase' = "ready"
            /\ render_function' = [vars  |-> PrologueVars(all_vars, loop_vars),
                                   lines |-> body_code.lines]
       ELSE /\ phase' = "failed"
            /\ UNCHANGED render_function
    /\ UNCHANGED <<driver, src, text, contexts, selfContext, codeIndent, tokens, tpos, body_code, ops_stack,
                   all_vars, loop_vars>>
    /\ UNCHANGED renderVars

\* Variant of Render whose prologue raises only when the first name it
\* iterates is missing, and otherwise binds the names the context has.
RenderFirstNameOnly(context) ==
    /\ phase \in {"ready", "done", "rfailed"}
    /\ LET rc == Merge(selfContext, context)
       IN  /\ caller_context' = context
           /\ render_context' = rc
           /\ output' = << >>
           /\ \/ /\ \E n \in render_function.vars \ DOMAIN rc :
                        err' = Failure("KeyError", "", n)
                 /\ machine' = IdleMachine
                 /\ phase' = "rfailed"
              \/ /\ render_function.vars = {} \/ render_function.vars \cap DOMAIN rc # {}
                 /\ machine' = [IdleMachine EXCEPT
                                   !.pc = 1,
                                   !.locals = [n \in render_function.vars \cap DOMAIN rc |-> rc[n]]]
                 /\ phase' = "running"
                 /\ err' = NoErr
    /\ UNCHANGED <<driver, src, text, contexts, selfContext>>
    /\ UNCHANGED compileVars

(***************************************************************************)
(* Template.render(context) up to the end of the prologue: the merge, then *)
(* one "c_n = context['n']" per prologue name, in the iteration order of a *)
(* set; the first name missing from the context raises KeyError.           *)
(***************************************************************************)
\* Variant of render: the call's mapping is merged into the template's own
\* dictionary instead of into a copy of it.
RenderNoCopy(context) ==
    /\ phase \in {"ready", "done", "rfailed"}
    /\ LET rc      == Merge(selfContext, context)
           missing == render_function.vars \ DOMAIN rc
       IN  /\ caller_context' = context
           /\ selfContext' = rc
           /\ render_context' = rc
           /\ output' = << >>
           /\ IF missing = {}
              THEN /\ machine' = [IdleMachine EXCEPT
                                     !.pc = 1,
                                     !.locals = [n \in render_function.vars |-> rc[n]]]
                   /\ phase' = "running"
                   /\ err' = NoErr
              ELSE \E n \in missing :
                   /\ machine' = IdleMachine
                   /\ phase' = "rfailed"
                   /\ err' = Failure("KeyError", "", n)
    /\ UNCHANGED <<driver, src, text, contexts>>
    /\ UNCHANGED compileVars

Render(context) ==
    /\ phase \in {"ready", "done", "rfailed"}
    /\ LET rc      == Merge(selfContext, context)
           missing == render_function.vars \ DOMAIN rc
       IN  /\ caller_context' = context
           /\ render_context' = rc
           /\ output' = << >>
           /\ IF missing = {}
              THEN /\ machine' = [IdleMachine EXCEPT
                                     !.pc = 1,
                                     !.locals = [n \in render_function.vars |-> rc[n]]]
                   /\ phase' = "running"
                   /\ err' = NoErr
              ELSE \E n \in missing :
                   /\ machine' = IdleMachine
                   /\ phase' = "rfailed"
                   /\ err' = Failure("KeyError", "", n)
    /\ UNCHANGED <<driver, src, text, contexts, selfContext>>
    /\ UNCHANGED compileVars

(***************************************************************************)
(* One statement of the body of render_function.                           *)
(***************************************************************************)
ExecLine ==
    /\ phase = "running"
    /\ machine.pc <= Len(render_function.lines)
    /\ LET m == ExecStep(render_function.lines, machine)
       IN  /\ machine' = m
           /\ err' = m.err
           /\ phase' = IF m.err = NoErr THEN "running" ELSE "rfailed"
    /\ UNCHANGED <<driver, src, text, contexts, selfContext, caller_context, render_context, output>>
    /\ UNCHANGED compileVars

(***************************************************************************)
(* return ''.join(result)                                                  *)
(***************************************************************************)
Return ==
    /\ phase = "running"
    /\ machine.pc > Len(render_function.lines)
    /\ output' = Concat(machine.result)
    /\ phase' = "done"
    /\ UNCHANGED <<driver, src, text, contexts, selfContext, err, caller_context, render_context, machine>>
    /\ UNCHANGED compileVars

(***************************************************************************)
(* The build drivers: App.handle_inputs (mrbavii/applytmpl/app.py), apply  *)
(* and save (mrbavii_applytmpl/main.py), apply (applytmpl.py).  Paths are  *)
(* POSIX paths (os.sep is "/").  The output file system is                 *)
(* [files, dirs]: the path -> [kind, content, mtime] of its files and      *)
(* links, and the paths of its directories.                                *)
(***************************************************************************)

NoDriver == [kind |-> "none"]

\* The prefix of a section that names a file.
FilePrefix == <<"f", "i", "l", "e", ":">>

\* os.path.join(a, b)
PathJoin(a, b) ==
    IF StartsWith(b, <<"/">>) THEN b
    ELSE IF a = << >> \/ a[Len(a)] = "/" THEN a \o b
    ELSE a \o <<"/">> \o b

\* os.path.basename(p)
Basename(p) == Slice(p, RFind(p, <<"/">>) + 1, Len(p))

RECURSIVE RStripSep(_)
\* p.rstrip("/")
RStripSep(p) ==
    IF p # << >> /\ p[Len(p)] = "/" THEN RStripSep(SubSeq(p, 1, Len(p) - 1)) ELSE p

\* os.path.dirname(p)
Dirname(p) ==
    LET head == Slice(p, 0, RFind(p, <<"/">>) + 1)
    IN  IF \E i \in 1 .. Len(head) : head[i] # "/" THEN RStripSep(head) ELSE head

\* os.path.splitext(p)[0]
SplitextRoot(p) ==
    LET sepIndex == RFind(p, <<"/">>)
        dotIndex == RFind(p, <<".">>)
    IN  IF dotIndex > sepIndex /\ \E i \in (sepIndex + 2) .. dotIndex : p[i] # "."
        THEN Slice(p, 0, dotIndex) ELSE p

\* The modification time of a file written during the run, later than any
\* time on disk before it.
SourceTime == 1

WriteTime == 3

FileOf(content, mtime) == [kind |-> "file", content |-> content, mtime |-> mtime, to |-> << >>]

\* A symbolic link; to is the path the link leads to.
LinkTo(to) == [kind |-> "link", content |-> << >>, mtime |-> 0, to |-> to]

\* os.path.islink
IsLink(fs, p) == p \in DOMAIN fs.files /\ fs.files[p].kind = "link"

\* The path a call that follows links acts on.
Follow(fs, p) == IF IsLink(fs, p) THEN fs.files[p].to ELSE p

\* os.path.isfile / isdir / exists: all three follow links.
IsFile(fs, p) == Follow(fs, p) \in DOMAIN fs.files /\ fs.files[Follow(fs, p)].kind = "file"

IsDir(fs, p) == RStripSep(Follow(fs, p)) \in fs.dirs

Exists(fs, p) == IsFile(fs, p) \/ IsDir(fs, p)

\* os.path.getmtime
GetMTime(fs, p) == fs.files[Follow(fs, p)].mtime

RECURSIVE WithDirs(_, _)
\* The directories after os.makedirs(p).
WithDirs(dirs, p) ==
    IF p = << >> \/ p \in dirs THEN dirs ELSE WithDirs(dirs \cup {p}, Dirname(p))

\* print(...) of a status line.
Log(d, status, target) ==
    [d EXCEPT !.log = Append(@, [status |-> status, target |-> target])]

\* if not os.path.isdir(p): os.makedirs(p).  makedirs refuses a path that is
\* there and is no directory.
MakeDirs(d, p) ==
    IF d.err # "none" \/ IsDir(d.fs, p) THEN d
    ELSE IF RStripSep(p) \in DOMAIN d.fs.files THEN [d EXCEPT !.err = "FileExistsError"]
    ELSE [d EXCEPT !.fs.dirs = WithDirs(@, RStripSep(p))]

\* os.unlink(p) for a file or a link.
Unlink(fs, p) == [fs EXCEPT !.files = [q \in DOMAIN @ \ {p} |-> @[q]]]

\* if os.path.exists(p): os.unlink(p).  A directory cannot be unlinked.
UnlinkIfExists(d, p) ==
    IF d.err # "none" \/ ~Exists(d.fs, p) THEN d
    ELSE IF p \notin DOMAIN d.fs.files THEN [d EXCEPT !.err = "IsADirectoryError"]
    ELSE [d EXCEPT !.fs = Unlink(@, p)]

\* The file p after a write: created or replaced.
WriteFile(fs, p, content) ==
    [fs EXCEPT !.files = (p :> FileOf(content, WriteTime)) @@ @]

\* open(p, "wt") and write.  open follows a link at p, refuses a directory
\* and needs the directory of the file.
OpenWrite(d, p, content) ==
    IF d.err # "none" THEN d
    ELSE IF IsDir(d.fs, p) THEN [d EXCEPT !.err = "IsADirectoryError"]
    ELSE IF ~IsDir(d.fs, Dirname(Follow(d.fs, p))) THEN [d EXCEPT !.err = "FileNotFoundError"]
    ELSE [d EXCEPT !.fs = WriteFile(@, Follow(d.fs, p), content)]

\* App.save_output: written unless the file is there with this content.
SaveOutput(d, filename, content) ==
    IF d.force \/ ~IsFile(d.fs, filename)
          \/ d.fs.files[Follow(d.fs, filename)].content # content
    THEN OpenWrite(d, filename, content)
    ELSE d

\* outbase = os.path.join(self.out_dir, os.path.dirname(source.relpath...))
AppOutbase(d) == PathJoin(d.out_dir, Dirname(d.relpath))

\* outname = os.path.join(outbase, os.path.basename(filename))
AppOutname(d, name) == PathJoin(AppOutbase(d), Basename(Slice(name, 5, Len(name))))

\* The body of App.handle_inputs' loop over the sections, for section sec
\* (a run without --verbose prints nothing).
AppHandle(d, sec) ==
    IF ~StartsWith(sec.name, FilePrefix) \/ d.dry THEN [d EXCEPT !.pos = @ + 1]
    ELSE [SaveOutput(MakeDirs(d, AppOutbase(d)), AppOutname(d, sec.name), sec.content)
              EXCEPT !.pos = @ + 1]

AppSection ==
    /\ driver.kind = "app"
    /\ driver.pos <= Len(driver.sections)
    /\ driver.err = "none"
    /\ driver' = AppHandle(driver, driver.sections[driver.pos])
    /\ UNCHANGED templateVars

\* checktimes(source, target)
CheckTimes(fs, stime, target) == ~IsFile(fs, target) \/ stime > GetMTime(fs, target)

\* The writing part of save: unlink what is there, make the directory, write.
Replace(d, target, content) ==
    OpenWrite(MakeDirs(UnlinkIfExists(d, target), Dirname(target)), target, content)

\* save(source, target, content, progdata) of main.py
Save(d, target, content) ==
    IF ~(IsLink(d.fs, target) \/ CheckTimes(d.fs, d.stime, target) \/ d.force)
    THEN Log(d, "NOCHG", target)
    ELSE IF d.dry THEN Log(d, "BUILD", target)
    ELSE Replace(Log(d, "BUILD", target), target, content)

\* target = os.path.join(dirname, section[5:].replace("/", os.sep))
SectionTarget(d, name) == PathJoin(d.out_dir, Slice(name, 5, Len(name)))

\* The body of the loop of main.py's apply, for section sec.
MainHandle(d, sec) ==
    IF ~StartsWith(sec.name, FilePrefix) THEN [d EXCEPT !.pos = @ + 1]
    ELSE [Save(d, SectionTarget(d, sec.name), sec.content) EXCEPT !.pos = @ + 1, !.found = TRUE]

MainSection ==
    /\ driver.kind = "main"
    /\ driver.pos <= Len(driver.sections)
    /\ driver.err = "none"
    /\ driver' = MainHandle(driver, driver.sections[driver.pos])
    /\ UNCHANGED templateVars

\* "if not found_sections": the main content goes to the input's name
\* without its last extension.
MainAfterSections ==
    /\ driver.kind = "main"
    /\ driver.pos > Len(driver.sections)
    /\ driver.err = "none"
    /\ ~driver.finished
    /\ driver' = [(IF driver.found THEN driver
                   ELSE Save(driver,
                             PathJoin(driver.out_dir, SplitextRoot(Basename(driver.relpath))),
                             driver.main))
                     EXCEPT !.finished = TRUE]
    /\ UNCHANGED templateVars

\* The writing part of applytmpl.py's apply: nothing makes the target's
\* directory.
OpenAndWrite(d, target, content) == OpenWrite(UnlinkIfExists(d, target), target, content)

\* The next section, unless the section at hand raised.
NextSection(d) == IF d.err # "none" THEN d ELSE [d EXCEPT !.pos = @ + 1]

\* The body of the loop of applytmpl.py's apply, for section sec; dry is
\* "not cmdline.live".
ApplytmplHandle(d, sec, target) ==
    IF ~StartsWith(sec.name, FilePrefix) THEN NextSection(d)
    ELSE IF ~(IsLink(d.fs, target) \/ CheckTimes(d.fs, d.stime, target) \/ d.force)
    THEN NextSection(Log(d, "NOCHG", target))
    ELSE IF d.dry THEN NextSection(Log(d, "BUILD", target))
    ELSE NextSection(OpenAndWrite(Log(d, "BUILD", target), target, sec.content))

\* applytmpl.py run on one input file: apply(args.input, args.output, ...).
ApplytmplSection ==
    /\ driver.kind = "applytmpl"
    /\ driver.pos <= Len(driver.sections)
    /\ driver.err = "none"
    /\ driver' = ApplytmplHandle(driver, driver.sections[driver.pos],
                                 SectionTarget(driver, driver.sections[driver.pos].name))
    /\ UNCHANGED templateVars

RECURSIVE ApplyRest(_, _)
\* apply(source, dirname, ...): the loop over the sections from d.pos on.
ApplyRest(d, dirname) ==
    IF d.pos > Len(d.sections) \/ d.err # "none" THEN d
    ELSE ApplyRest(ApplytmplHandle(d, d.sections[d.pos],
                                   PathJoin(dirname, Slice(d.sections[d.pos].name, 5,
                                                           Len(d.sections[d.pos].name)))),
                   dirname)

Apply(d, dirname) == [ApplyRest([d EXCEPT !.pos = 1], dirname) EXCEPT !.pos = 1]

\* os.symlink(link, target): the directory of the target must be there.
Symlink(d, link, target) ==
    IF d.err # "none" THEN d
    ELSE IF ~IsDir(d.fs, Dirname(target)) THEN [d EXCEPT !.err = "FileNotFoundError"]
    ELSE [d EXCEPT !.fs.files = (target :> LinkTo(link)) @@ @]

\* if os.path.exists(target) or os.path.islink(target): os.unlink(target)
UnlinkIfThere(d, target) ==
    IF ~(Exists(d.fs, target) \/ IsLink(d.fs, target)) THEN d
    ELSE IF target \notin DOMAIN d.fs.files THEN [d EXCEPT !.err = "IsADirectoryError"]
    ELSE [d EXCEPT !.fs = Unlink(@, target)]

\* Variant of copylink that makes the link in a dry run too.
CopyLinkIgnoringLive(d, link, target) ==
    Symlink(UnlinkIfThere(Log(d, "SYMLN", target), target), link, target)

\* copylink(source, target, state, progdata); link is os.readlink(source).
CopyLink(d, link, target) ==
    IF d.dry THEN Log(d, "SYMLN", target)
    ELSE Symlink(UnlinkIfThere(Log(d, "SYMLN", target), target), link, target)

\* copyfile(source, target, state, progdata); shutil.copy writes the source's
\* content to the target.
CopyFile(d, content, target) ==
    IF ~(IsLink(d.fs, target) \/ CheckTimes(d.fs, d.stime, target) \/ d.force)
    THEN Log(d, "NOCHG", target)
    ELSE IF d.dry THEN Log(d, "COPY ", target)
    ELSE OpenWrite(UnlinkIfExists(Log(d, "COPY ", target), target), target, content)

\* handlefile(source, target, env, state, progdata)
HandleFile(d, e, target) ==
    IF e.tmpl THEN Apply(d, Dirname(target))
    ELSE IF e.other = "copy" THEN CopyFile(d, e.content, target)
    ELSE d

\* The head of process(indir, outdir, ...): the output directory is made in
\* a live run; the entries of indir follow in the listing.
ProcessDir(d, outdir) == IF d.dry THEN d ELSE MakeDirs(d, outdir)

\* An entry of a symbolic link under its policy, else what a plain entry gets.
LinkOr(d, e, target, plain) ==
    IF ~e.link \/ e.policy = "follow" THEN plain
    ELSE IF e.policy = "copy" THEN CopyLink(d, e.linkto, target)
    ELSE d

\* The body of the loop of process over the sorted listing, for entry e.
ProcessHandle(d, e, target) ==
    IF e.skip THEN d
    ELSE IF e.is = "dir" THEN LinkOr(d, e, target, ProcessDir(d, target))
    ELSE IF e.is = "file" THEN LinkOr(d, e, target, HandleFile(d, e, target))
    ELSE IF e.link /\ e.policy = "copy" THEN CopyLink(d, e.linkto, target)
    ELSE d

\* applytmpl.py run on a directory: process(args.input, args.output, "", ...).
ApplytmplProcess ==
    /\ driver.kind = "process"
    /\ driver.epos = 0
    /\ driver' = [ProcessDir(driver, driver.out_dir) EXCEPT !.epos = 1]
    /\ UNCHANGED templateVars

\* One entry of the listings, in the order process meets them.
ApplytmplEntry ==
    /\ driver.kind = "process"
    /\ driver.epos \in 1 .. Len(driver.entries)
    /\ driver.err = "none"
    /\ driver' = [ProcessHandle(driver, driver.entries[driver.epos],
                                PathJoin(driver.out_dir, driver.entries[driver.epos].path))
                     EXCEPT !.epos = @ + 1]
    /\ UNCHANGED templateVars

\* The end of applytmpl.py's main: the note of a dry run.
ApplytmplEnd ==
    /\ driver.kind \in {"applytmpl", "process"}
    /\ driver.kind = "applytmpl" => driver.pos > Len(driver.sections)
    /\ driver.kind = "process" => driver.epos > Len(driver.entries)
    /\ driver.err = "none"
    /\ ~driver.finished
    /\ driver' = [(IF driver.dry THEN Log(driver, "DRYRN", << >>) ELSE driver)
                     EXCEPT !.finished = TRUE]
    /\ UNCHANGED templateVars

(***************************************************************************)
(* App.find_inputs (mrbavii/applytmpl/app.py): the inputs named on the     *)
(* command line and the --walk scan of the root directory.  A path is the  *)
(* sequence of its names; a directory is [dirs, files], the names it       *)
(* holds.                                                                  *)
(***************************************************************************)

\* The characters of the names and values, in the order of their code points.
CharOrder ==
    << "\n", " ", "#", "*", ",", ".", "/", "0", "1", "2", "3", "4", "5", "6", "7", "8", "9",
       ":", "?", "A", "B", "C", "D", "E", "F", "G", "H", "I", "J", "K", "L", "M", "N", "O",
       "P", "Q", "R", "S", "T", "U", "V", "W", "X", "Y", "Z", "_", "a", "b", "c", "d", "e",
       "f", "g", "h", "i", "j", "k", "l", "m", "n", "o", "p", "q", "r", "s", "t", "u", "v",
       "w", "x", "y", "z" >>

Ord(c) == CHOOSE i \in 1 .. Len(CharOrder) : CharOrder[i] = c

RECURSIVE StrLess(_, _)
\* a < b for two str.
StrLess(a, b) ==
    IF b = << >> THEN FALSE
    ELSE IF a = << >> THEN TRUE
    ELSE IF a[1] = b[1] THEN StrLess(Tail(a), Tail(b))
    ELSE Ord(a[1]) < Ord(b[1])

RECURSIVE SortedNames(_)
\* list.sort() / sorted() of names that differ from one another.
SortedNames(names) ==
    IF names = {} THEN << >>
    ELSE LET least == CHOOSE n \in names : \A m \in names : ~StrLess(m, n)
         IN  <<least>> \o SortedNames(names \ {least})

RECURSIVE FnMatch(_, _)
\* fnmatch.fnmatch(name, pat) for patterns of "*", "?" and plain characters
\* (os.path.normcase changes nothing on POSIX).
FnMatch(name, pat) ==
    IF pat = << >> THEN name = << >>
    ELSE IF pat[1] = "*"
    THEN FnMatch(name, Tail(pat)) \/ (name # << >> /\ FnMatch(Tail(name), pat))
    ELSE /\ name # << >>
         /\ pat[1] = "?" \/ pat[1] = name[1]
         /\ FnMatch(Tail(name), Tail(pat))

\* The loop "for j in self.exclude: if fnmatch.fnmatch(i, j): ... break".
AnyMatch(name, patterns) == \E j \in 1 .. Len(patterns) : FnMatch(name, patterns[j])

\* list.remove of the item at position k (the names differ).
RemoveAt(list, k) == SubSeq(list, 1, k - 1) \o SubSeq(list, k + 1, Len(list))

RECURSIVE PruneDirs(_, _, _)
\* "for i in sdirs: ... sdirs.remove(i)": the list iterator goes on to the
\* next position of the list as the removal left it.
PruneDirs(sdirs, k, exclude) ==
    IF k > Len(sdirs) THEN sdirs
    ELSE IF AnyMatch(sdirs[k], exclude) THEN PruneDirs(RemoveAt(sdirs, k), k + 1, exclude)
    ELSE PruneDirs(sdirs, k + 1, exclude)

\* The loop "for fn in sorted(sfiles)": the inputs of directory sdir.
CollectFiles(sdir, sfiles, walk, exclude) ==
    LET kept == SelectSeq(sfiles, LAMBDA fn : FnMatch(fn, walk) /\ ~AnyMatch(fn, exclude))
    IN  [k \in 1 .. Len(kept) |-> Append(sdir, kept[k])]

\* The paths os.walk goes on to below sdir: the names left in sdirs.
Below(sdir, sdirs) == [k \in 1 .. Len(sdirs) |-> Append(sdir, sdirs[k])]

\* The start of find_inputs: the inputs given, and the scan if --walk is set.
FindInputs ==
    /\ driver.kind = "walk"
    /\ ~driver.started
    /\ driver' = [driver EXCEPT !.started = TRUE,
                                !.inputs = driver.initial_inputs,
                                !.pending = IF driver.walk # << >> THEN <<driver.root_dir>>
                                            ELSE << >>]
    /\ UNCHANGED templateVars

\* One pass of "for (sdir, sdirs, sfiles) in os.walk(self.root_dir)", top
\* down: the directories left in sdirs come next, before sdir's siblings.
WalkDir ==
    /\ driver.kind = "walk"
    /\ driver.started
    /\ driver.pending # << >>
    /\ driver' =
          [driver EXCEPT
              !.pending = Below(Head(driver.pending),
                                PruneDirs(SortedNames(driver.tree[Head(driver.pending)].dirs),
                                          1, driver.exclude))
                              \o Tail(driver.pending),
              !.inputs = @ \o CollectFiles(Head(driver.pending),
                                           SortedNames(driver.tree[Head(driver.pending)].files),
                                           driver.walk, driver.exclude),
              !.visited = Append(@, Head(driver.pending))]
    /\ UNCHANGED templateVars

(***************************************************************************)
(* SourceBase (mrbavii/applytmpl/sources.py): a source with its headers,   *)
(* its body and the data parsed from the body, loaded on first use.        *)
(***************************************************************************)

\* SourceBase.TYPES
TYPES ==
    { <<"a", "u", "t", "o">>, <<"u", "n", "k", "n", "o", "w", "n">>, <<"x", "m", "l">>,
      <<"j", "s", "o", "n">>, <<"i", "n", "i">>, <<"t", "e", "m", "p", "l", "a", "t", "e">> }

\* None: the value of _body and _data before they are set.
None == <<"None">>

LowerChar(c) ==
    IF \E i \in 1 .. Len(UpperSeq) : UpperSeq[i] = c
    THEN LowerSeq[CHOOSE i \in 1 .. Len(UpperSeq) : UpperSeq[i] = c]
    ELSE c

\* s.lower()
Lower(s) == [i \in 1 .. Len(s) |-> LowerChar(s[i])]

\* self._meta[name] = value
SetItem(meta, name, value) ==
    [n \in DOMAIN meta \cup {name} |-> IF n = name THEN value ELSE meta[n]]

\* The offset handle.readline() stops at, for the next newline at nl (-1 if
\* there is none).
LineEnd(content, nl) == IF nl = -1 THEN Len(content) ELSE nl + 1

\* A header line that is not blank: a comment, a line without ":", or
\* (name, value) = (parts[0].strip().lower(), parts[1].strip()).
HeaderLine(s, line, colon) ==
    IF line[1] = "#" \/ colon = -1 THEN s
    ELSE [s EXCEPT !.meta = SetItem(@, Lower(Strip(Slice(line, 0, colon))),
                                    Strip(Slice(line, colon + 1, Len(line))))]

RECURSIVE ReadHeaders(_)

\* One pass of the "while True" loop for the stripped line read.
HeadersFrom(s, line) ==
    IF line = << >> THEN s ELSE ReadHeaders(HeaderLine(s, line, Find(line, <<":">>, 0)))

\* self._body_offset += 1; line = handle.readline().strip()
HeadersAt(s, end) ==
    HeadersFrom([s EXCEPT !.pos = end, !.body_offset = @ + 1], Strip(Slice(s.content, s.pos, end)))

ReadHeaders(s) == HeadersAt(s, LineEnd(s.content, Find(s.content, <<"\n">>, s.pos)))

\* type = self._meta.get("type", None); type if type in self.TYPES else "unknown"
FixType(s) ==
    [s EXCEPT !.type = IF <<"t", "y", "p", "e">> \in DOMAIN s.meta
                          /\ s.meta[<<"t", "y", "p", "e">>] \in TYPES
                       THEN s.meta[<<"t", "y", "p", "e">>]
                       ELSE <<"u", "n", "k", "n", "o", "w", "n">>]

\* self._body = handle.read()
ReadBody(s) == [s EXCEPT !.body = Slice(s.content, s.pos, Len(s.content)), !.pos = Len(s.content)]

\* "\n" * self._body_offset + self._body
Padded(s) == [i \in 1 .. s.body_offset |-> "\n"] \o s.body

\* The parsing of the body.  The parsers of xml, json and ini are not part
\* of the program: a body with "!" stands for one they refuse, and the data
\* of any other is the parsed text.
ParseBody(s) ==
    IF s.type = <<"t", "e", "m", "p", "l", "a", "t", "e">> THEN [s EXCEPT !.data = s.body]
    ELSE IF s.type \in {<<"x", "m", "l">>, <<"j", "s", "o", "n">>, <<"i", "n", "i">>}
    THEN IF Contains(s.body, <<"!">>) THEN [s EXCEPT !.err = "ParseError"]
         ELSE [s EXCEPT !.data = [parsed |-> s.type, from |-> Padded(s)]]
    ELSE s

\* The body of "with self._open() as handle".
LoadOpened(s) ==
    IF s.type = <<"a", "u", "t", "o">> THEN ParseBody(ReadBody(FixType(ReadHeaders(s))))
    ELSE ParseBody(ReadBody(s))

\* Variant of load that reads the source again whenever it is called.
LoadAlways(s) ==
    LoadOpened([s EXCEPT !.opens = @ + 1, !.pos = 0, !.meta = << >>, !.body_offset = 0,
                         !.err = "none"])

\* SourceBase.load
Load(s) ==
    IF s.body # None THEN [s EXCEPT !.err = "none"]
    ELSE LoadOpened([s EXCEPT !.opens = @ + 1, !.pos = 0, !.meta = << >>, !.body_offset = 0,
                              !.err = "none"])

\* A call of load or of a property has been made.
Called(s) == [s EXCEPT !.calls = @ + 1]

\* What a property returns after self.load(), unless load raised.
Returning(s, value) == IF s.err # "none" THEN s ELSE [s EXCEPT !.got = value]

ReturnMeta(s) == Returning(s, s.meta)

ReturnBody(s) == Returning(s, s.body)

ReturnData(s) == Returning(s, s.data)

MaxCalls == 3

SourceLoad ==
    /\ driver.kind = "source"
    /\ driver.calls < MaxCalls
    /\ driver' = Called(Load(driver))
    /\ UNCHANGED templateVars

\* The properties meta, body and data.
SourceMeta ==
    /\ driver.kind = "source"
    /\ driver.calls < MaxCalls
    /\ driver' = Called(ReturnMeta(Load(driver)))
    /\ UNCHANGED templateVars

SourceBody ==
    /\ driver.kind = "source"
    /\ driver.calls < MaxCalls
    /\ driver' = Called(ReturnBody(Load(driver)))
    /\ UNCHANGED templateVars

SourceData ==
    /\ driver.kind = "source"
    /\ driver.calls < MaxCalls
    /\ driver' = Called(ReturnData(Load(driver)))
    /\ UNCHANGED templateVars

(***************************************************************************)
(* SourceList (mrbavii/applytmpl/sources.py): the list of the sources and  *)
(* its sorted copy.  A source of a list is [id, relpath, meta] with id the *)
(* object's identity.                                                      *)
(***************************************************************************)

\* _keyfn(obj) for the key name part.
KeyFn(obj, part) ==
    IF part = <<"r", "e", "l", "p", "a", "t", "h">>
    THEN IF obj.relpath # None THEN obj.relpath ELSE << >>
    ELSE IF part \in DOMAIN obj.meta THEN obj.meta[part] ELSE << >>

\* obj sorts before other under the key and the direction.
SortsBefore(obj, other, part, rsort) ==
    IF rsort THEN StrLess(KeyFn(other, part), KeyFn(obj, part))
    ELSE StrLess(KeyFn(obj, part), KeyFn(other, part))

RECURSIVE InsertSorted(_, _, _, _)
\* obj put into a sorted list behind the items it does not sort before.
InsertSorted(list, obj, part, rsort) ==
    IF list = << >> THEN <<obj>>
    ELSE IF SortsBefore(obj, Head(list), part, rsort) THEN <<obj>> \o list
    ELSE <<Head(list)>> \o InsertSorted(Tail(list), obj, part, rsort)

RECURSIVE SortFrom(_, _, _, _, _)
\* list.sort(key=_keyfn, reverse=rsort): a stable sort, also when reversed.
SortFrom(list, i, acc, part, rsort) ==
    IF i > Len(list) THEN acc
    ELSE SortFrom(list, i + 1, InsertSorted(acc, list[i], part, rsort), part, rsort)

\* The body of the loop over the parts: the prefix "a:" or "d:", the sort.
SortPart(list, part) ==
    IF Slice(part, 0, Min2(2, Len(part))) = <<"a", ":">>
    THEN SortFrom(list, 1, << >>, Slice(part, 2, Len(part)), FALSE)
    ELSE IF Slice(part, 0, Min2(2, Len(part))) = <<"d", ":">>
    THEN SortFrom(list, 1, << >>, Slice(part, 2, Len(part)), TRUE)
    ELSE SortFrom(list, 1, << >>, part, FALSE)

RECURSIVE SortParts(_, _, _)
\* "for part in reversed(meta.split(","))" from part k down.
SortParts(parts, k, list) ==
    IF k = 0 THEN list ELSE SortParts(parts, k - 1, SortPart(list, parts[k]))

RECURSIVE SortPartsForward(_, _, _)
SortPartsForward(parts, k, list) ==
    IF k > Len(parts) THEN list ELSE SortPartsForward(parts, k + 1, SortPart(list, parts[k]))

\* Variant of sorted that takes the parts in the order they are written.
SortedForward(sources, meta) == SortPartsForward(SplitChar(meta, ","), 1, sources)

\* SourceList.sorted(meta): the _sources of the new list.
Sorted(sources, meta) ==
    SortParts(SplitChar(meta, ","), Len(SplitChar(meta, ",")), sources)

MaxSources == 3

\* SourceList.add(source)
ListAdd ==
    /\ driver.kind = "list"
    /\ ~driver.done
    /\ Len(driver.sources) < MaxSources
    /\ \E source \in driver.pool :
          driver' = [driver EXCEPT
                        !.sources = Append(@, [id      |-> Len(driver.sources) + 1,
                                               relpath |-> source.relpath,
                                               meta    |-> source.meta])]
    /\ UNCHANGED templateVars

\* new = self.sorted(meta)
ListSorted ==
    /\ driver.kind = "list"
    /\ ~driver.done
    /\ driver' = [driver EXCEPT !.result = Sorted(driver.sources, driver.by), !.done = TRUE]
    /\ UNCHANGED templateVars

(***************************************************************************)
(* Template(text) and render as functions of their arguments: the token    *)
(* loop run to its end, the checks of the end of __init__, and the program *)
(* run to its return or to the exception it raises.                        *)
(***************************************************************************)

RECURSIVE BuildAll(_, _, _)
\* "for token in tokens" from token i on.
BuildAll(toks, i, st) ==
    IF i > Len(toks) \/ st.err # NoErr THEN st
    ELSE BuildAll(toks, i + 1, BuildToken(st, toks[i]))

\* What __init__ leaves for a built state: the error, or the program.
Finished(st, e) ==
    [err     |-> e,
     program |-> IF e = NoErr
                 THEN [vars |-> PrologueVars(st.all_vars, st.loop_vars), lines |-> st.code.lines]
                 ELSE NoProgram]

\* The checks after the token loop, for the state the loop left.
FinishAll(st) ==
    Finished(st, IF st.err # NoErr THEN st.err ELSE FinishErrFor(st.ops_stack, 0, st.code.lines))

\* Template(text=t): the exception raised, or the compiled program.
Compile(t) ==
    IF t = << >>
    THEN [err |-> Failure("TypeError", "expected str, bytes or os.PathLike object", << >>),
          program |-> NoProgram]
    ELSE FinishAll(BuildAll(Tokenize(t), 1,
                            [code |-> AddSection(INDENT_SIZE), ops_stack |-> << >>,
                             all_vars |-> {}, loop_vars |-> {}, err |-> NoErr]))

RECURSIVE RunAll(_, _)
\* The body of render_function from machine state m to its end.
RunAll(lines, m) ==
    IF m.err # NoErr \/ m.pc > Len(lines) THEN m ELSE RunAll(lines, ExecStep(lines, m))

\* What a finished machine gives the caller.
Returned(m) ==
    IF m.err = NoErr THEN [ok |-> TRUE, out |-> Concat(m.result), kind |-> "none"]
    ELSE [ok |-> FALSE, out |-> << >>, kind |-> m.err.kind]

\* render_function(rc, do_dots): the text returned, or the kind of exception.
RunProgram(program, rc) ==
    IF ~(program.vars \subseteq DOMAIN rc)
    THEN [ok |-> FALSE, out |-> << >>, kind |-> "KeyError"]
    ELSE Returned(RunAll(program.lines,
                         [IdleMachine EXCEPT !.pc = 1,
                                             !.locals = [n \in program.vars |-> rc[n]]]))


(***************************************************************************)
(* Callers' inputs.  A template is assembled from a source description (a  *)
(* sequence of nodes) and handed to Template as text; the description is   *)
(* kept beside it in src, which no action reads.                           *)
(*   [k |-> "lit", s]                      literal text                    *)
(*   [k |-> "raw", s]                      text taken as it is             *)
(*   [k |-> "out", trim, e]                {{ e }} / {{- e }}              *)
(*   [k |-> "if", arms, hasElse, els]      if / elif* / else? / endif,     *)
(*                                         arms: <<[c, body]>>             *)
(*   [k |-> "for", v, e, body]             for v in e / endfor             *)
(*   [k |-> "set", v, e]                   set v = e                       *)
(*   [k |-> "outraw", s]                   {{ s }} for any text s          *)
(*   [k |-> "comment", s]                  {# s #}                         *)
(*   [k |-> "open", kind, s] [k |-> "close", kind, s]   one block tag      *)
(* An expression e is [seed, filters]: an atom (a name, an integer, a name  *)
(* followed by dotted names, or nothing) piped through filters [f, args],  *)
(* each argument an atom.                                                  *)
(***************************************************************************)

Nx == <<"x">>

Ny == <<"y">>

Na == <<"a">>

Nb == <<"b">>

Nv == <<"v">>

Nw == <<"w">>

Ne == <<"e">>

Nm == <<"m">>

Nn == <<"n">>

Nk == <<"k">>

Nf == <<"f">>

NMk == <<"m", "k">>

NTrue == <<"t", "r", "u", "e">>

NUpper == <<"u", "p", "p", "e", "r">>

NCat == <<"c", "a", "t">>

NAdd == <<"a", "d", "d">>

AName(n) == [a |-> "name", n |-> n, i |-> 0]

AInt(i) == [a |-> "int", n |-> << >>, i |-> i]

AEmpty == [a |-> "empty", n |-> << >>, i |-> 0]

ADots(n, d) == [a |-> "dots", n |-> n, i |-> 0, d |-> d]

Filter(f, args) == [f |-> f, args |-> args]

Piped(atom, filters) == [seed |-> atom, filters |-> filters]

E(atom) == Piped(atom, << >>)

Var(n) == E(AName(n))

Lit(s) == [k |-> "lit", s |-> s]

Raw(s) == [k |-> "raw", s |-> s]

Out(trim, e) == [k |-> "out", trim |-> trim, e |-> e]

Arm(c, body) == [c |-> c, body |-> body]

IfNode(arms, hasElse, els) == [k |-> "if", arms |-> arms, hasElse |-> hasElse, els |-> els]

ForNode(v, e, body) == [k |-> "for", v |-> v, e |-> e, body |-> body]

SetNode(v, e) == [k |-> "set", v |-> v, e |-> e]

OutRaw(s) == [k |-> "outraw", s |-> s]

Comment(s) == [k |-> "comment", s |-> s]

\* The text of an atom, a filter, an expression.
FmtAtom(atom) ==
    CASE atom.a = "name" -> atom.n
      [] atom.a = "int"  -> IntStr(atom.i)
      [] atom.a = "dots" -> atom.n \o Concat([i \in 1 .. Len(atom.d) |-> <<".">> \o atom.d[i]])
      [] OTHER           -> << >>

FmtFilter(f) ==
    IF f.args = << >> THEN f.f
    ELSE f.f \o <<"(">> \o Join([i \in 1 .. Len(f.args) |-> FmtAtom(f.args[i])], <<",", " ">>)
             \o <<")">>

FmtExpr(e) ==
    FmtAtom(e.seed)
        \o Concat([i \in 1 .. Len(e.filters) |-> <<" ", "|", " ">> \o FmtFilter(e.filters[i])])

\* {% words %}
Tag(words) == <<"{", "%", " ">> \o words \o <<" ", "%", "}">>

RECURSIVE FmtNodes(_)
RECURSIVE FmtArms(_, _)

FmtArms(arms, i) ==
    IF i > Len(arms) THEN << >>
    ELSE Tag((IF i = 1 THEN <<"i", "f", " ">> ELSE <<"e", "l", "i", "f", " ">>)
             \o FmtExpr(arms[i].c))
         \o FmtNodes(arms[i].body) \o FmtArms(arms, i + 1)

FmtNode(node) ==
    CASE node.k = "out" ->
           <<"{", "{">> \o (IF node.trim THEN <<"-">> ELSE << >>) \o <<" ">>
               \o FmtExpr(node.e) \o <<" ", "}", "}">>
      [] node.k = "if" ->
           FmtArms(node.arms, 1)
               \o (IF node.hasElse THEN Tag(<<"e", "l", "s", "e">>) \o FmtNodes(node.els)
                   ELSE << >>)
               \o Tag(<<"e", "n", "d", "i", "f">>)
      [] node.k = "outraw" -> <<"{", "{", " ">> \o node.s \o <<" ", "}", "}">>
      [] node.k = "comment" -> <<"{", "#", " ">> \o node.s \o <<" ", "#", "}">>
      [] node.k = "set" ->
           Tag(<<"s", "e", "t", " ">> \o node.v \o <<" ", "=", " ">> \o FmtExpr(node.e))
      [] node.k = "for" ->
           Tag(<<"f", "o", "r", " ">> \o node.v \o <<" ", "i", "n", " ">> \o FmtExpr(node.e))
               \o FmtNodes(node.body) \o Tag(<<"e", "n", "d", "f", "o", "r">>)
      [] OTHER -> node.s

\* The template text of a source description.
FmtNodes(nodes) ==
    IF nodes = << >> THEN << >> ELSE FmtNode(Head(nodes)) \o FmtNodes(Tail(nodes))

\* All sequences over S of length at most n.
SeqsUpTo(S, n) == UNION {[1 .. k -> S] : k \in 0 .. n}

\* All sequences over S of length 1 .. n.
SeqsFrom1(S, n) == UNION {[1 .. k -> S] : k \in 1 .. n}

Source(fam, nodes) == [fam |-> fam, nodes |-> nodes]


\* --- bounds of the input families ---

\* Longest plain text.
MaxLitLen == 3

\* Most block tags / pieces in a sequence of tags.
MaxPieces == 3

\* Most if / elif arms of one chain.
MaxArms == 2

\* Most filters in one pipe chain.
MaxFilters == 2

\* The dotted names after the first segment of an expression.
MaxDots == 2

\* The characters of an expression text.
MaxExprLen == 3

\* The sections of one rendering.
MaxSections == 2

\* The characters of a pipe segment.
MaxSegLen == 4

\* --- the families ---

LitAlphabet == {"a", " ", "\n", "{", "}", "'", "\\"}

\* Plain texts, some of them with a lone delimiter character.
FamLit == {Source("lit", <<Lit(t)>>) : t \in SeqsUpTo(LitAlphabet, MaxLitLen)}

ForBodies ==
    { <<Lit(<<"a">>)>>,
      <<Out(FALSE, Var(Nv))>>,
      <<Out(FALSE, Var(Nv)), Lit(<<",">>)>>,
      <<Lit(<<"a", "\n">>), Out(FALSE, Var(Nx))>>,
      <<Out(FALSE, Piped(AName(Nv), <<Filter(NCat, <<AName(Ny)>>)>>))>>,
      <<IfNode(<<Arm(Var(Na), <<Out(FALSE, Var(Nv))>>)>>, TRUE, <<Lit(<<"n">>)>>)>>,
      <<ForNode(Nw, Var(Nv), <<Out(FALSE, Var(Nw)), Lit(<<".">>)>>)>> }

\* One loop, with text before and after it.
FamFor ==
    { Source("for", pre \o <<ForNode(Nv, Var(it), body)>> \o post) :
        pre \in {<< >>, <<Lit(<<"p", " ">>)>>}, it \in {Ne, Nx}, body \in ForBodies,
        post \in {<< >>, <<Lit(<<"q">>)>>} }

IfConds == {Var(Na), Var(Nb), Var(Nx)}

\* The body of arm i: Y<i>, and for the first arm of a nested chain an inner
\* if before it.
ArmBody(i, nested) ==
    (IF nested /\ i = 1
     THEN <<IfNode(<<Arm(Var(Nb), <<Lit(<<"Q">>)>>)>>, FALSE, << >>)>> ELSE << >>)
        \o <<Lit(<<"Y", DigitSeq[i + 1]>>)>>

\* One if chain between "<" and ">".
FamIf ==
    { Source("if", <<Lit(<<"<">>),
                     IfNode([i \in 1 .. Len(cs) |-> Arm(cs[i], ArmBody(i, nested))],
                            hasElse, <<Lit(<<"N">>)>>),
                     Lit(<<">">>)>>) :
        cs \in SeqsFrom1(IfConds, MaxArms), hasElse \in BOOLEAN, nested \in BOOLEAN }

PipeFilters ==
    { Filter(NUpper, << >>), Filter(NCat, <<AName(Ny)>>),
      Filter(NCat, <<AName(Ny), AName(Nx)>>), Filter(NAdd, <<AName(Ny)>>) }

\* One output marker with a pipe chain.
FamPipe ==
    { Source("pipe", <<Out(FALSE, Piped(seed, fs))>>) :
        seed \in {AName(Nx), AEmpty}, fs \in SeqsFrom1(PipeFilters, MaxFilters) }

\* Integer literals: printed, tested, passed to a filter.
FamInt ==
    { Source("int", <<Out(FALSE, E(AInt(2)))>>),
      Source("int", <<Out(FALSE, E(AInt(0)))>>),
      Source("int", <<IfNode(<<Arm(E(AInt(0)), <<Lit(<<"X">>)>>)>>, FALSE, << >>)>>),
      Source("int", <<IfNode(<<Arm(E(AInt(2)), <<Lit(<<"X">>)>>)>>, TRUE, <<Lit(<<"N">>)>>)>>),
      Source("int", <<Out(FALSE, Piped(AInt(2), <<Filter(NAdd, <<AInt(3)>>)>>))>>),
      Source("int", <<Out(FALSE, Piped(AName(Ny), <<Filter(NCat, <<AInt(12)>>)>>))>>) }

\* "line1\n{%- if true %}\nX{% endif %}"
TrimExample ==
    <<"l", "i", "n", "e", "1", "\n">>
        \o <<"{", "%", "-", " ", "i", "f", " ", "t", "r", "u", "e", " ", "%", "}">>
        \o <<"\n", "X">> \o Tag(<<"e", "n", "d", "i", "f">>)

FamExample == {Source("example", <<Raw(TrimExample)>>)}

TrimLits ==
    { <<"a", "\n">>, <<"a", " ">>, <<"a", " ", "\n", " ">>, <<"a", "\n", "b", " ">>, <<" ">> }

\* Text, then markers with the trim flag.
FamTrim ==
    { Source("trim", <<Lit(t)>> \o mid \o <<Out(TRUE, Var(Ny))>> \o post) :
        t \in TrimLits, mid \in {<< >>, <<Out(FALSE, Var(Nx))>>},
        post \in {<< >>, <<Lit(<<" ", "c">>)>>} }

Open(kind, s) == [k |-> "open", kind |-> kind, s |-> s]

Close(kind, s) == [k |-> "close", kind |-> kind, s |-> s]

\* An else / elif tag followed by the text of its branch.
Branch(kind, s) == [k |-> "branch", kind |-> kind, s |-> s]

\* An action marker without words.
NoWords == [k |-> "nowords", kind |-> "", s |-> <<"{", "%", " ", "%", "}">>]

OpenIfText == Open("if", Tag(<<"i", "f", " ", "a">>) \o <<"t">>)

ElseText == Branch("else", Tag(<<"e", "l", "s", "e">>) \o <<"t">>)

ElifText == Branch("elif", Tag(<<"e", "l", "i", "f", " ", "b">>) \o <<"t">>)

EndIf == Close("if", Tag(<<"e", "n", "d", "i", "f">>))

BlockPieces ==
    { Open("if", Tag(<<"i", "f", " ", "a">>)),
      Open("for", Tag(<<"f", "o", "r", " ", "v", " ", "i", "n", " ", "e">>)),
      EndIf,
      Close("for", Tag(<<"e", "n", "d", "f", "o", "r">>)),
      Lit(<<"t">>),
      OpenIfText, ElseText, ElifText, NoWords }

\* if chains with a branch after their else.
BranchAfterElse ==
    { <<OpenIfText, ElseText, ElseText, EndIf>>, <<OpenIfText, ElseText, ElifText, EndIf>>,
      <<OpenIfText, ElifText, ElseText, EndIf>> }

\* Block tags in any order, balanced or not.
FamBlocks ==
    {Source("blocks", ps) : ps \in SeqsUpTo(BlockPieces, MaxPieces) \cup BranchAfterElse}

\* References to names the contexts lack, and to loop variables outside
\* their loop.
FamVars ==
    { Source("vars", <<Out(FALSE, Var(Nm))>>),
      Source("vars", <<Lit(<<"t">>), Out(FALSE, Var(Nm))>>),
      Source("vars", <<IfNode(<<Arm(Var(Nb), <<Out(FALSE, Var(Nm))>>)>>, FALSE, << >>)>>),
      Source("vars", <<ForNode(Nv, Var(Ne), <<Out(FALSE, Var(Nm))>>)>>),
      Source("vars", <<Out(FALSE, Piped(AName(Nx), <<Filter(Nm, << >>)>>))>>),
      Source("vars", <<Out(FALSE, Var(Nv)), ForNode(Nv, Var(Ne), <<Out(FALSE, Var(Nv))>>)>>),
      Source("vars", <<ForNode(Nv, Var(Ne), <<Lit(<<"a">>)>>), Out(FALSE, Var(Nv))>>),
      Source("vars", <<ForNode(Nx, Var(Ne), <<Out(FALSE, Var(Nx))>>), Out(FALSE, Var(Ny))>>),
      Source("vars", <<ForNode(Nv, Var(Nv), <<Lit(<<"a">>)>>)>>) }

\* "f(.))", "f(a.))", "f(a.(b)", "f()"
SegmentExamples ==
    { <<"f", "(", ".", ")", ")">>, <<"f", "(", "a", ".", ")", ")">>,
      <<"f", "(", "a", ".", "(", "b", ")">>, <<"f", "(", ")">> }

\* x piped into one segment: any short text of a name and parentheses.
FamParens ==
    { Source("parens", <<OutRaw(<<"x", "|">> \o seg)>>) :
        seg \in SeqsFrom1({"f", "(", ")"}, MaxSegLen) \cup SegmentExamples }

\* A, a comment without the trim flag, B: text before the comment, and
\* after it text, output markers and markers with the trim flag.
FamComment ==
    { Source("comment", A \o <<Comment(<<"c">>)>> \o B) :
        A \in {<< >>, <<Lit(<<"a", " ">>)>>, <<Lit(<<"a", "\n", " ">>)>>, <<Out(FALSE, Var(Nx))>>},
        B \in {<< >>, <<Lit(<<"b">>)>>, <<Out(FALSE, Var(Ny))>>, <<Out(TRUE, Var(Ny))>>,
               <<Lit(<<" ">>), Out(TRUE, Var(Ny))>>,
               <<Lit(<<" ">>), IfNode(<<Arm(Var(Na), <<Lit(<<"z">>)>>)>>, FALSE, << >>)>>} }

\* Texts in the place of a name: three that are names and four that are not.
NameTexts ==
    { <<"v">>, <<"_", "a", "1">>, <<"A", "_">>,
      <<"1", "a">>, <<"a", "-", "b">>, <<"a", "'">>, <<"a", ";", "b">> }

\* The places of a name: bare, filter, filter with parameters, parameter,
\* target of set, variable of for.
NamePlaces == {"bare", "filter", "filterp", "param", "set", "for"}

NameAt(place, n) ==
    CASE place = "bare"    -> Out(FALSE, Var(n))
      [] place = "filter"  -> Out(FALSE, Piped(AName(Nx), <<Filter(n, << >>)>>))
      [] place = "filterp" -> Out(FALSE, Piped(AName(Nx), <<Filter(n, <<AName(Ny)>>)>>))
      [] place = "param"   -> Out(FALSE, Piped(AName(Nx), <<Filter(NCat, <<AName(n)>>)>>))
      [] place = "set"     -> SetNode(n, Var(Nx))
      [] OTHER             -> ForNode(n, Var(Ne), <<Lit(<<"t">>)>>)

\* One output marker "seed | f()": a filter with an empty argument list.
FamEmptyArgs ==
    { Source("emptyargs", <<Out(FALSE, Piped(seed, <<Filter(f, <<AEmpty>>)>>))>>) :
        seed \in {AName(Nx), AName(Ny)}, f \in {NUpper, NCat, NAdd} }

FamNames == { Source("names", <<NameAt(place, n)>>) : place \in NamePlaces, n \in NameTexts }

\* The characters of the expression texts.
ExprAlphabet == {"a", "1", ".", "|", " "}

\* "1.5", "x | cat(a|b)", "x|cat(y.n)"
ExprExamples ==
    { <<"1", ".", "5">>,
      <<"x", " ", "|", " ", "c", "a", "t", "(", "a", "|", "b", ")">>,
      <<"x", "|", "c", "a", "t", "(", "y", ".", "n", ")">> }

\* One output marker around any short text.
FamExpr ==
    { Source("expr", <<OutRaw(e)>>) : e \in SeqsUpTo(ExprAlphabet, MaxExprLen) \cup ExprExamples }

\* One output marker with a dotted name: x.n, y.k.f, ...
FamDots ==
    { Source("dots", <<Out(FALSE, E(ADots(base, d)))>>) :
        base \in {Nx, Ny}, d \in SeqsFrom1({Nn, Nk, Nf}, MaxDots) }

\* Assignments: to a name nothing refers to, to a name referred to before
\* and after, in a loop, and to the loop variable.
FamSet ==
    { Source("set", <<SetNode(Nw, Var(Ny))>>),
      Source("set", <<SetNode(Nx, Var(Ny)), Out(FALSE, Var(Nx))>>),
      Source("set", <<Out(FALSE, Var(Nx)),
                      SetNode(Nx, Piped(AName(Ny), <<Filter(NCat, <<AName(Nx)>>)>>)),
                      Out(FALSE, Var(Nx))>>),
      Source("set", <<ForNode(Nv, Var(Ne), <<SetNode(Nx, Var(Nv))>>), Out(FALSE, Var(Nx))>>),
      Source("set", <<ForNode(Nv, Var(Ne), <<Out(FALSE, Var(Nv)), SetNode(Nv, Var(Ny)),
                                             Out(FALSE, Var(Nv))>>)>>),
      Source("set", <<SetNode(Nm, Var(Nx)), Out(FALSE, Var(Nm))>>) }

Sources ==
    FamLit \cup FamFor \cup FamIf \cup FamPipe \cup FamInt \cup FamExample \cup FamTrim
        \cup FamBlocks \cup FamVars \cup FamSet \cup FamDots \cup FamExpr \cup FamNames
        \cup FamComment \cup FamParens \cup FamEmptyArgs

\* --- sections of a rendering ---

\* "file:a/x", "file:b/x", "file:x", "file:a/y", and a section that names no
\* file.
SectionNames ==
    { FilePrefix \o <<"a", "/", "x">>, FilePrefix \o <<"b", "/", "x">>, FilePrefix \o <<"x">>,
      FilePrefix \o <<"a", "/", "y">>, <<"m">> }

\* The text of a section: different sections have different texts.
SectionText(name) == <<"#">> \o name

\* --- contexts ---

Filters ==
    (NUpper :> VFn(NUpper)) @@ (NCat :> VFn(NCat)) @@ (NAdd :> VFn(NAdd))

Context1 ==
    (Nx :> VStr(<<"a", "b">>)) @@ (Ny :> VStr(<<"c">>)) @@ (Na :> VBool(TRUE))
        @@ (Nb :> VBool(FALSE)) @@ (Ne :> VList(<<VInt(1), VInt(2)>>))
        @@ (NTrue :> VBool(TRUE)) @@ Filters

Context2 ==
    (Nx :> VStr(<< >>)) @@ (Ny :> VStr(<<"b">>)) @@ (Na :> VBool(FALSE))
        @@ (Nb :> VBool(TRUE)) @@ (Ne :> VStr(<<"p", "q">>))
        @@ (NTrue :> VInt(1)) @@ Filters

Context3 ==
    (Nx :> VStr(<<" ">>)) @@ (Ny :> VInt(3)) @@ (Na :> VInt(0))
        @@ (Nb :> VStr(<< >>)) @@ (Ne :> VList(<< >>))
        @@ (NTrue :> VStr(<<"y">>)) @@ Filters

Context4 ==
    (Nx :> VInt(2)) @@ (Ny :> VInt(3)) @@ (Na :> VList(<<VInt(0)>>))
        @@ (Nb :> VList(<< >>))
        @@ (Ne :> VList(<<VList(<<VStr(<<"p">>), VStr(<<"q">>)>>), VStr(<<"r", "s">>)>>))
        @@ (Nv :> VStr(<<"z">>)) @@ (Nm :> VStr(<<"m", "m">>)) @@ Filters

\* An instance of
\*   class P:
\*       n = "A"
\*       f = staticmethod(mk)
\*       def __getitem__(self, k): return {"n": "I", "k": "K"}[k]
ObjP ==
    VObj(<<[k |-> Nn, v |-> VStr(<<"A">>)], [k |-> Nf, v |-> VFn(NMk)]>>,
         <<[k |-> Nn, v |-> VStr(<<"I">>)], [k |-> Nk, v |-> VStr(<<"K">>)]>>)

\* x an instance, y a dict one of whose values is an instance and another a
\* callable.
Context5 ==
    (Nx :> ObjP)
        @@ (Ny :> VMap(<<[k |-> Nn, v |-> VStr(<<"Y">>)], [k |-> Nk, v |-> ObjP],
                         [k |-> Nf, v |-> VFn(NMk)]>>))
        @@ Filters

\* What render is called with.
Contexts == {EmptyContext, Context1, Context2, Context3, Context4, Context5}

ContextK == (Nx :> VStr(<<"k">>)) @@ (Na :> VBool(TRUE)) @@ (Nm :> VStr(<<"k", "m">>))

ContextJ == (Nx :> VStr(<<"j">>)) @@ (Nm :> VInt(7))

\* What Template is constructed with: no context, one, or two that share names.
ConstructContexts == {<< >>, <<ContextK>>, <<ContextK, ContextJ>>, <<ContextJ, ContextK>>}


Init ==
    /\ src \in Sources
    /\ text = FmtNodes(src.nodes)
    /\ contexts \in ConstructContexts
    /\ selfContext = EmptyContext
    /\ phase = "new"
    /\ err = NoErr
    /\ codeIndent = 0
    /\ tokens = << >>
    /\ tpos = 0
    /\ body_code = [lines |-> << >>, indent |-> 0, low |-> 0]
    /\ ops_stack = << >>
    /\ all_vars = {}
    /\ loop_vars = {}
    /\ render_function = NoProgram
    /\ caller_context = EmptyContext
    /\ render_context = EmptyContext
    /\ machine = IdleMachine
    /\ output = << >>
    /\ driver = NoDriver

Next ==
    \/ Construct
    \/ Build
    \/ Finish
    \/ \E context \in Contexts : Render(context)
    \/ ExecLine
    \/ Return

Spec == Init /\ [][Next]_vars

(***************************************************************************)
(* The build drivers' specification: one driver working through the        *)
(* sections of one rendering.                                              *)
(***************************************************************************)

\* What a rendering hands the driver: sections with different names, in the
\* order the renderer lists them.
SectionLists ==
    {ss \in SeqsUpTo(SectionNames, MaxSections) :
        \A i, j \in 1 .. Len(ss) : i # j => ss[i] # ss[j]}

\* The output file system before the run: nothing at all; only the output
\* directory; the directories of the sections too; with a target older than
\* the source, as old as the source, newer than the source; with a link at
\* the target that leads nowhere, or to a file; with a directory at the
\* target.
TargetPath == <<"o", "/", "a", "/", "x">>

OutDirs == {<<"o">>, <<"o", "/", "a">>}

FileSystems ==
    { [files |-> << >>, dirs |-> {}],
      [files |-> << >>, dirs |-> {<<"o">>}],
      [files |-> << >>, dirs |-> {<<"o">>, <<"o", "/", "a">>, <<"o", "/", "b">>}],
      [files |-> (TargetPath :> FileOf(<<"o", "l", "d">>, SourceTime - 1)), dirs |-> OutDirs],
      [files |-> (TargetPath :> FileOf(<<"o", "l", "d">>, SourceTime)), dirs |-> OutDirs],
      [files |-> (TargetPath :> FileOf(<<"o", "l", "d">>, SourceTime + 1)), dirs |-> OutDirs],
      [files |-> (TargetPath :> LinkTo(<<"o", "/", "z">>)), dirs |-> OutDirs],
      [files |-> (TargetPath :> LinkTo(<<"o", "/", "z">>))
                    @@ (<<"o", "/", "z">> :> FileOf(<<"k", "e", "p", "t">>, SourceTime + 1)),
       dirs  |-> OutDirs],
      [files |-> << >>, dirs |-> OutDirs \cup {TargetPath}] }

\* An entry of an input directory as process sees it: its path under the
\* input directory, what it is (islink, isdir, isfile), the policy of its
\* state for a link, whether its name ends with the template extension, the
\* policy for other files, whether its state ignores or excludes it.
Entry(path, is, link, policy, tmpl, other, skip) ==
    [path |-> path, is |-> is, link |-> link, policy |-> policy, tmpl |-> tmpl,
     other |-> other, skip |-> skip, linkto |-> <<"v">>, content |-> <<"S">>]

\* Entries in the order of a sorted listing walked top down.
AllEntries ==
    << Entry(<<"a">>, "dir", FALSE, "ignore", FALSE, "copy", FALSE),
       Entry(<<"a", "/", "x">>, "file", FALSE, "ignore", FALSE, "copy", FALSE),
       Entry(<<"a", "/", "x">>, "file", TRUE, "copy", FALSE, "copy", FALSE),
       Entry(<<"a", "/", "x">>, "file", TRUE, "follow", FALSE, "copy", FALSE),
       Entry(<<"b">>, "dir", TRUE, "copy", FALSE, "copy", FALSE),
       Entry(<<"b">>, "dir", TRUE, "follow", FALSE, "copy", FALSE),
       Entry(<<"c">>, "dir", TRUE, "ignore", FALSE, "copy", FALSE),
       Entry(<<"k">>, "file", FALSE, "ignore", FALSE, "copy", TRUE),
       Entry(<<"l">>, "other", TRUE, "copy", FALSE, "copy", FALSE),
       Entry(<<"n">>, "file", FALSE, "ignore", FALSE, "ignore", FALSE),
       Entry(<<"t", ".", "i">>, "file", FALSE, "ignore", TRUE, "copy", FALSE) >>

MaxEntries == 2

\* An entry is listed where process goes: at the top, or in a directory that
\* process entered.
Entered(es, k) ==
    Dirname(es[k].path) = << >>
        \/ \E j \in 1 .. (k - 1) :
              /\ es[j].path = Dirname(es[k].path)
              /\ es[j].is = "dir" /\ ~es[j].skip
              /\ ~es[j].link \/ es[j].policy = "follow"

Listings ==
    { es \in { [k \in 1 .. Len(ix) |-> AllEntries[ix[k]]] :
                  ix \in { jx \in SeqsUpTo(1 .. Len(AllEntries), MaxEntries) :
                             \A j, k \in 1 .. Len(jx) : j < k => jx[j] < jx[k] } } :
        /\ \A j, k \in 1 .. Len(es) : j < k => es[j].path # es[k].path
        /\ \A k \in 1 .. Len(es) : Entered(es, k) }

DriverOf(kind, dry, force, relpath, ss, fs, es) ==
    [kind     |-> kind,
     dry      |-> dry,
     force    |-> force,
     out_dir  |-> <<"o">>,
     relpath  |-> relpath,
     stime    |-> SourceTime,
     sections |-> [i \in 1 .. Len(ss) |-> [name |-> ss[i], content |-> SectionText(ss[i])]],
     main     |-> <<"M">>,
     pos      |-> 1,
     found    |-> FALSE,
     finished |-> FALSE,
     entries  |-> es,
     epos     |-> 0,
     log      |-> << >>,
     before   |-> fs,
     fs       |-> fs,
     err      |-> "none"]

Drivers ==
    { DriverOf(kind, dry, force, relpath, ss, fs, << >>) :
        kind \in {"app", "main", "applytmpl"}, dry \in BOOLEAN, force \in BOOLEAN,
        relpath \in {<<"t", ".", "i">>, <<"s", "/", "t", ".", "i">>},
        ss \in SectionLists, fs \in FileSystems }
    \cup
    { DriverOf("process", dry, force, << >>, ss, fs, es) :
        dry \in BOOLEAN, force \in BOOLEAN,
        ss \in {ss \in SectionLists : Len(ss) = 1}, fs \in FileSystems, es \in Listings }

DriverInit ==
    /\ src = Source("lit", << >>)
    /\ text = << >>
    /\ contexts = << >>
    /\ selfContext = EmptyContext
    /\ phase = "new"
    /\ err = NoErr
    /\ codeIndent = 0
    /\ tokens = << >>
    /\ tpos = 0
    /\ body_code = [lines |-> << >>, indent |-> 0, low |-> 0]
    /\ ops_stack = << >>
    /\ all_vars = {}
    /\ loop_vars = {}
    /\ render_function = NoProgram
    /\ caller_context = EmptyContext
    /\ render_context = EmptyContext
    /\ machine = IdleMachine
    /\ output = << >>
    /\ driver \in Drivers

DriverNext ==
    \/ AppSection
    \/ MainSection
    \/ MainAfterSections
    \/ ApplytmplSection
    \/ ApplytmplProcess
    \/ ApplytmplEntry
    \/ ApplytmplEnd

DriverSpec == DriverInit /\ [][DriverNext]_vars

(***************************************************************************)
(* The scan's specification: one root directory, scanned once.             *)
(***************************************************************************)
DirNames == { <<"a">>, <<"b">>, <<"x", "a">>, <<"x", "b">>, <<"x", "c">> }

FileNames == { <<"t", ".", "i">>, <<"x", ".", "i">>, <<"n", ".", "j">> }

RootDir == <<"r">>

\* A root with the directories top, each of which holds the directories sub;
\* every directory holds the files of FileNames.
Tree(top, sub) ==
    [p \in {<<RootDir>>} \cup {<<RootDir, d>> : d \in top}
              \cup {<<RootDir, d, e>> : d \in top, e \in sub} |->
        [dirs  |-> IF Len(p) = 1 THEN top ELSE IF Len(p) = 2 THEN sub ELSE {},
         files |-> FileNames]]

ExcludeLists ==
    { << >>, << <<"x", "*">> >>, << <<"x", "a">>, <<"x", "b">> >>, << <<"b">>, <<"x", "?">> >> }

WalkInit ==
    /\ src = Source("lit", << >>)
    /\ text = << >>
    /\ contexts = << >>
    /\ selfContext = EmptyContext
    /\ phase = "new"
    /\ err = NoErr
    /\ codeIndent = 0
    /\ tokens = << >>
    /\ tpos = 0
    /\ body_code = [lines |-> << >>, indent |-> 0, low |-> 0]
    /\ ops_stack = << >>
    /\ all_vars = {}
    /\ loop_vars = {}
    /\ render_function = NoProgram
    /\ caller_context = EmptyContext
    /\ render_context = EmptyContext
    /\ machine = IdleMachine
    /\ output = << >>
    /\ driver \in
          { [kind           |-> "walk",
             root_dir       |-> <<RootDir>>,
             tree           |-> Tree(top, sub),
             walk           |-> walk,
             exclude        |-> exclude,
             initial_inputs |-> << <<RootDir, <<"g", ".", "i">> >> >>,
             started        |-> FALSE,
             inputs         |-> << >>,
             pending        |-> << >>,
             visited        |-> << >>] :
              top \in SUBSET DirNames,
              sub \in {{}, {<<"a">>}, {<<"x", "a">>, <<"x", "b">>}},
              walk \in {<< >>, <<"*", ".", "i">>},
              exclude \in ExcludeLists }

WalkNext ==
    \/ FindInputs
    \/ WalkDir

WalkSpec == WalkInit /\ [][WalkNext]_vars

(***************************************************************************)
(* The sources' specification: one source text, used any number of times.  *)
(***************************************************************************)
\* The lines a source text is made of: headers, comments, lines without a
\* colon, blank lines, lines of a body.
SourceLines ==
    { <<"t", "y", "p", "e", ":", " ", "j", "s", "o", "n">>,
      <<"T", "y", "p", "e", " ", ":", "t", "e", "m", "p", "l", "a", "t", "e">>,
      <<"t", "y", "p", "e", ":", "a", "u", "t", "o">>,
      <<"t", "y", "p", "e", ":", "X", "M", "L">>,
      <<" ", "#", "c", ":", "d">>,
      <<"n", "o">>,
      <<"A", ":", " ", "b", ":", "c">>,
      <<"a", ":", "e">>,
      << >>,
      <<" ">>,
      <<"!">> }

MaxLines == 3

\* The text of the lines, each ended by a newline, the last one perhaps not.
TextOf(lines, ended) ==
    LET whole == Concat([i \in 1 .. Len(lines) |-> lines[i] \o <<"\n">>])
    IN  IF ended \/ whole = << >> THEN whole ELSE SubSeq(whole, 1, Len(whole) - 1)

\* The texts: a last line without its newline is not an empty line.
SourceTexts ==
    { given \in [lines : SeqsUpTo(SourceLines, MaxLines), ended : BOOLEAN] :
        given.ended \/ (given.lines # << >> /\ given.lines[Len(given.lines)] # << >>) }

SourceOf(type, lines, ended) ==
    [kind        |-> "source",
     lines       |-> lines,
     content     |-> TextOf(lines, ended),
     given       |-> type,
     type        |-> type,
     meta        |-> << >>,
     body_offset |-> 0,
     body        |-> None,
     data        |-> None,
     pos         |-> 0,
     opens       |-> 0,
     calls       |-> 0,
     got         |-> None,
     err         |-> "none"]

\* The names of the meta values and the magic name.
Kt == <<"t">>

Kw == <<"w">>

Krelpath == <<"r", "e", "l", "p", "a", "t", "h">>

\* A key of a sort: "name", "a:name" or "d:name".
Key(prefix, name) == [prefix |-> prefix, name |-> name]

Asc(name) == Key(<< >>, name)

Desc(name) == Key(<<"d", ":">>, name)

KeyLists ==
    { <<Asc(Kt)>>, <<Desc(Kt)>>, <<Key(<<"a", ":">>, Kt)>>, <<Asc(Kt), Asc(Kw)>>,
      <<Desc(Kt), Asc(Kw)>>, <<Asc(Kt), Desc(Kw)>>, <<Asc(Krelpath)>>,
      <<Desc(Krelpath), Asc(Kt)>>, <<Asc(Kw), Desc(Krelpath)>> }

\* "k1,k2,..."
FmtKeys(keys) == Join([i \in 1 .. Len(keys) |-> keys[i].prefix \o keys[i].name], <<",">>)

\* The sources a list is filled from: with and without the value t, with
\* and without a relative path.
SourcePool ==
    { [relpath |-> relpath, meta |-> tmeta @@ (Kw :> w)] :
        relpath \in {None, <<"p">>},
        tmeta \in {<< >>, (Kt :> <<"a">>), (Kt :> <<"a", "b">>)},
        w \in {<<"a">>, <<"b">>} }

ListOf(keys) ==
    [kind    |-> "list",
     keys    |-> keys,
     by      |-> FmtKeys(keys),
     pool    |-> SourcePool,
     sources |-> << >>,
     result  |-> << >>,
     done    |-> FALSE]

SourceInit ==
    /\ src = Source("lit", << >>)
    /\ text = << >>
    /\ contexts = << >>
    /\ selfContext = EmptyContext
    /\ phase = "new"
    /\ err = NoErr
    /\ codeIndent = 0
    /\ tokens = << >>
    /\ tpos = 0
    /\ body_code = [lines |-> << >>, indent |-> 0, low |-> 0]
    /\ ops_stack = << >>
    /\ all_vars = {}
    /\ loop_vars = {}
    /\ render_function = NoProgram
    /\ caller_context = EmptyContext
    /\ render_context = EmptyContext
    /\ machine = IdleMachine
    /\ output = << >>
    /\ driver \in
          { SourceOf(type, given.lines, given.ended) :
              type \in {<<"a", "u", "t", "o">>, <<"j", "s", "o", "n">>},
              given \in SourceTexts }
          \cup { ListOf(keys) : keys \in KeyLists }

SourceNext ==
    \/ SourceLoad
    \/ SourceMeta
    \/ SourceBody
    \/ SourceData
    \/ ListAdd
    \/ ListSorted

SourceSpec == SourceInit /\ [][SourceNext]_vars




(***************************************************************************)
(* What a source description means, read from the description itself:      *)
(* literal text stands for itself, an output marker for the text of its    *)
(* expression, an if chain for the body of its first true arm, a loop for  *)
(* its body once per item.  A state is [ok, out, env].  An integer atom    *)
(* stands for that integer, and a trim flag trims the whole of "out".      *)
(***************************************************************************)

RefAtomNames(atom) == IF atom.a \in {"name", "dots"} THEN {atom.n} ELSE {}

RefFilterNames(f) == {f.f} \cup UNION {RefAtomNames(f.args[j]) : j \in 1 .. Len(f.args)}

\* The names an expression refers to: its atoms and its filters.
RefExprNames(e) ==
    RefAtomNames(e.seed) \cup UNION {RefFilterNames(e.filters[i]) : i \in 1 .. Len(e.filters)}

RECURSIVE RefAllNames(_)
RECURSIVE RefLoopNames(_)

\* The names referred to by the expressions of the nodes.
RefAllNames(nodes) ==
    IF nodes = << >> THEN {}
    ELSE LET node == Head(nodes)
             here == CASE node.k = "out" -> RefExprNames(node.e)
                       [] node.k = "if" ->
                            UNION {RefExprNames(node.arms[i].c) \cup RefAllNames(node.arms[i].body) :
                                      i \in 1 .. Len(node.arms)}
                                \cup (IF node.hasElse THEN RefAllNames(node.els) ELSE {})
                       [] node.k = "for" -> RefExprNames(node.e) \cup RefAllNames(node.body)
                       [] node.k = "set" -> RefExprNames(node.e)
                       [] OTHER -> {}
         IN  here \cup RefAllNames(Tail(nodes))

\* The names bound by a for anywhere in the nodes.
RefLoopNames(nodes) ==
    IF nodes = << >> THEN {}
    ELSE LET node == Head(nodes)
             here == CASE node.k = "if" ->
                            UNION {RefLoopNames(node.arms[i].body) : i \in 1 .. Len(node.arms)}
                                \cup (IF node.hasElse THEN RefLoopNames(node.els) ELSE {})
                       [] node.k = "for" -> {node.v} \cup RefLoopNames(node.body)
                       [] OTHER -> {}
         IN  here \cup RefLoopNames(Tail(nodes))

\* The free variables of a description.
RefFree(nodes) == RefAllNames(nodes) \ RefLoopNames(nodes)

\* The families whose templates are written from nodes with a meaning.
Described == {"lit", "for", "if", "pipe", "int", "trim", "vars", "set", "dots"}

\* What a value has under a name: its attributes, and its keys.
RefAttrs(value) == IF value.t = "obj" THEN value.v.attrs ELSE << >>

RefKeys(value) ==
    CASE value.t = "map" -> value.v
      [] value.t = "obj" -> value.v.items
      [] OTHER -> << >>

RefHas(pairs, name) == \E i \in 1 .. Len(pairs) : pairs[i].k = name

RefGet(pairs, name) == pairs[CHOOSE i \in 1 .. Len(pairs) : pairs[i].k = name].v

\* The attribute of that name if the value has one, else its key of that
\* name; what is found is called if it can be.
RefResolve(value, name) ==
    LET found == IF RefHas(RefAttrs(value), name) THEN RefGet(RefAttrs(value), name)
                 ELSE RefGet(RefKeys(value), name)
    IN  IF ~RefHas(RefAttrs(value), name) /\ ~RefHas(RefKeys(value), name)
        THEN Bad(Failure("LookupError", "", name))
        ELSE IF found.t = "fn" THEN Call(found, << >>)
        ELSE Ok(found)

RECURSIVE RefDots(_, _)
\* v.n1.n2...: the names resolved left to right.
RefDots(r, names) ==
    IF names = << >> \/ ~r.ok THEN r
    ELSE RefDots(RefResolve(r.v, Head(names)), Tail(names))

RefAtom(atom, env) ==
    CASE atom.a = "name" ->
           IF atom.n \in DOMAIN env THEN Ok(env[atom.n])
           ELSE Bad(Failure("LookupError", "", atom.n))
      [] atom.a = "dots" ->
           IF atom.n \in DOMAIN env THEN RefDots(Ok(env[atom.n]), atom.d)
           ELSE Bad(Failure("LookupError", "", atom.n))
      [] atom.a = "int" -> Ok(VInt(atom.i))
      [] OTHER -> Ok(VStr(<< >>))

\* f(value, args...) with f looked up like any other name.
RefApply(f, value, env) ==
    LET args == [j \in 1 .. Len(f.args) |-> RefAtom(f.args[j], env)]
    IN  IF f.f \notin DOMAIN env THEN Bad(Failure("LookupError", "", f.f))
        ELSE IF \E j \in 1 .. Len(args) : ~args[j].ok
        THEN Bad(Failure("LookupError", "", << >>))
        ELSE Call(env[f.f], <<value>> \o [j \in 1 .. Len(args) |-> args[j].v])

RECURSIVE RefFilters(_, _, _)
RefFilters(fs, acc, env) ==
    IF fs = << >> \/ ~acc.ok THEN acc
    ELSE RefFilters(Tail(fs), RefApply(Head(fs), acc.v, env), env)

\* seed | f1 | f2 ... is ...f2(f1(seed, args1), args2)...
RefExpr(e, env) == RefFilters(e.filters, RefAtom(e.seed, env), env)

\* The trim of the claim, on the whole output so far.
RefTrim(out) ==
    LET last_nl == RFind(out, <<"\n">>)
    IN  IF last_nl = -1 THEN RStrip(out)
        ELSE Slice(out, 0, last_nl) \o RStrip(Slice(out, last_nl, Len(out)))

RefFail(st) == [st EXCEPT !.ok = FALSE]

RECURSIVE RefNodes(_, _)
RECURSIVE RefArms(_, _, _)
RECURSIVE RefLoop(_, _, _)

RefOut(node, st, r) ==
    IF ~r.ok THEN RefFail(st)
    ELSE [st EXCEPT !.out = (IF node.trim THEN RefTrim(@) ELSE @) \o ToStr(r.v)]

RefFor(node, st, it) ==
    IF ~it.ok THEN RefFail(st) ELSE RefLoop(node, it.v.v, st)

RefIterate(r) == IF r.ok THEN Iterate(r.v) ELSE r

\* The name stands for the value of the expression from here on.
RefSet(node, st, r) ==
    IF ~r.ok THEN RefFail(st) ELSE [st EXCEPT !.env = Bind(@, node.v, r.v)]

RefNode(node, st) ==
    CASE node.k = "lit" -> [st EXCEPT !.out = @ \o node.s]
      [] node.k = "out" -> RefOut(node, st, RefExpr(node.e, st.env))
      [] node.k = "if"  -> RefArms(node, 1, st)
      [] node.k = "for" -> RefFor(node, st, RefIterate(RefExpr(node.e, st.env)))
      [] node.k = "set" -> RefSet(node, st, RefExpr(node.e, st.env))
      [] OTHER -> RefFail(st)

\* The body of the first arm whose condition is true, else the else body.
RefArms(node, i, st) ==
    IF i > Len(node.arms)
    THEN IF node.hasElse THEN RefNodes(node.els, st) ELSE st
    ELSE LET r == RefExpr(node.arms[i].c, st.env)
         IN  IF ~r.ok THEN RefFail(st)
             ELSE IF Truthy(r.v) THEN RefNodes(node.arms[i].body, st)
             ELSE RefArms(node, i + 1, st)

\* The body once per item, the loop variable bound to the item.
RefLoop(node, items, st) ==
    IF items = << >> \/ ~st.ok THEN st
    ELSE RefLoop(node, Tail(items),
                 RefNodes(node.body, [st EXCEPT !.env = Bind(@, node.v, Head(items))]))

RefNodes(nodes, st) ==
    IF nodes = << >> \/ ~st.ok THEN st
    ELSE RefNodes(Tail(nodes), RefNode(Head(nodes), st))

\* The free variables of the template, with their values in the merged context.
RefEnv ==
    [n \in (RefFree(src.nodes) \cap DOMAIN render_context) |-> render_context[n]]

\* What the description of the template means in the merged context.
Ref == RefNodes(src.nodes, [ok |-> TRUE, out |-> << >>, env |-> RefEnv])

\* The text has none of the three opening delimiters.
NoDelims(s) == ~Contains(s, OpenOut) /\ ~Contains(s, OpenAct) /\ ~Contains(s, OpenCom)

\* render returned / raised in the body of the program (not in its prologue).
Rendered == phase = "done"

RaisedInBody == phase = "rfailed" /\ machine.pc # 0

RaisedAtEntry == phase = "rfailed" /\ machine.pc = 0

Compiled == phase \in {"ready", "running", "done", "rfailed"}

\* What a block tag does to the open blocks: if and for open one block,
\* else and elif need an open if innermost, an end tag needs an open block
\* of its kind innermost and closes it.  "why" says what went wrong.
RefBlockStep(st, piece) ==
    CASE piece.k = "open" -> [st EXCEPT !.open = Append(@, piece.kind)]
      [] piece.k = "branch" ->
           IF st.open = << >> \/ st.open[Len(st.open)] # "if"
           THEN [st EXCEPT !.bad = TRUE, !.why = "Mismatched " \o piece.kind]
           ELSE st
      [] piece.k = "close" ->
           IF st.open = << >> THEN [st EXCEPT !.bad = TRUE, !.why = "Too many ends"]
           ELSE IF st.open[Len(st.open)] # piece.kind
           THEN [st EXCEPT !.bad = TRUE, !.why = "Mismatched end tag"]
           ELSE [st EXCEPT !.open = SubSeq(@, 1, Len(@) - 1)]
      [] piece.k = "nowords" -> [st EXCEPT !.bad = TRUE, !.why = "no words"]
      [] OTHER -> st

RECURSIVE RefBlocks(_, _)
\* The open blocks of a sequence of block tags, innermost last, and whether
\* a tag was met that the open blocks do not allow.
RefBlocks(pieces, st) ==
    IF pieces = << >> \/ st.bad THEN st
    ELSE RefBlocks(Tail(pieces), RefBlockStep(st, Head(pieces)))

RefOpen == RefBlocks(src.nodes, [open |-> << >>, bad |-> FALSE, why |-> ""])


(***************************************************************************)
(* The claims.                                                             *)
(***************************************************************************)

\* C1 (as stated): every text without "{{", "{%" or "{#", the empty text
\* included, compiles, and render returns exactly that text in any context.
C1_LiteralTextUnchanged ==
    NoDelims(text) =>
        /\ phase \notin {"failed", "rfailed"}
        /\ Rendered => output = text

\* C2: a for loop emits its body once per item of the value of its
\* expression, in iteration order, with the loop variable bound to the
\* item; the loop variable is not taken from the render context, so render
\* succeeds where the context lacks it.
C2_ForEmitsBodyPerItem ==
    src.fam = "for" =>
        /\ Compiled => Nv \notin render_function.vars
        /\ Rendered => Ref.ok /\ output = Ref.out
        /\ RaisedInBody => ~Ref.ok
        /\ RaisedAtEntry => err.thing # Nv

C2_Witness ==
    /\ src.fam = "for"
    /\ src.nodes = <<ForNode(Nv, Var(Ne), <<Out(FALSE, Var(Nv)), Lit(<<",">>)>>)>>
    /\ Rendered
    /\ Nv \notin DOMAIN render_context
    /\ render_context[Ne] = VList(<<VInt(1), VInt(2)>>)
    /\ output = <<"1", ",", "2", ",">>

\* C3: an if / elif / else chain emits the body of exactly one branch, the
\* first whose condition is true, else the else body if there is one, else
\* nothing; the other bodies contribute no output.
C3_FirstTrueBranchOnly ==
    src.fam = "if" =>
        /\ Rendered => Ref.ok /\ output = Ref.out
        /\ RaisedInBody => ~Ref.ok

C3_Witness ==
    /\ src.fam = "if"
    /\ Rendered
    /\ Len(src.nodes[2].arms) = 2
    /\ src.nodes[2].hasElse
    /\ ~Truthy(render_context[src.nodes[2].arms[1].c.seed.n])
    /\ Truthy(render_context[src.nodes[2].arms[2].c.seed.n])
    /\ output = <<"<", "Y", "2", ">">>

\* C4: in a pipe chain the value on the left is the first positional
\* argument of each filter, left to right (seed | f | g(a) is
\* g(f(seed), a)), and every filter name is bound from the render context
\* like any other free variable.
C4_PipePassesLeftValueFirst ==
    src.fam = "pipe" =>
        /\ Compiled =>
              {src.nodes[1].e.filters[i].f : i \in 1 .. Len(src.nodes[1].e.filters)}
                  \subseteq render_function.vars
        /\ Rendered => Ref.ok /\ output = Ref.out
        /\ RaisedInBody => ~Ref.ok

C4_Witness ==
    /\ src.fam = "pipe"
    /\ src.nodes = <<Out(FALSE, Piped(AName(Nx), <<Filter(NCat, <<AName(Ny), AName(Nx)>>),
                                                    Filter(NUpper, << >>)>>))>>
    /\ Rendered
    /\ render_context[Nx] = VStr(<<"a", "b">>)
    /\ output = <<"A", "B", "C", "A", "B">>

\* C5 (as stated): an expression that parses as a base-10 integer has that
\* integer as its value wherever it is used: printed, as a filter argument,
\* and for truth in an if, where 0 is false.
C5_IntegerLiteralIsInteger ==
    src.fam = "int" =>
        /\ Rendered => Ref.ok /\ output = Ref.out
        /\ RaisedInBody => ~Ref.ok

\* "line1\nX"
Line1NewlineX == <<"l", "i", "n", "e", "1", "\n", "X">>

\* "line1X"
Line1X == <<"l", "i", "n", "e", "1", "X">>

\* C6 (as stated): "line1\n{%- if true %}\nX{% endif %}" with true bound to
\* a true value renders exactly "line1X".
C6_ExampleAsStated ==
    (src.fam = "example" /\ Rendered /\ Truthy(render_context[NTrue])) => output = Line1X

\* C6 (amended): "line1\n{%- if true %}\nX{% endif %}" with true bound to
\* a true value renders exactly "line1\nX": the trim removes the newline
\* before the marker and leaves the one after it.
C6_ExampleKeepsNewlineAfterMarker ==
    (src.fam = "example" /\ Rendered /\ Truthy(render_context[NTrue]))
        => output = Line1NewlineX

C6_Witness ==
    /\ src.fam = "example"
    /\ Rendered
    /\ NTrue \in DOMAIN render_context
    /\ Truthy(render_context[NTrue])
    /\ output = Line1NewlineX

\* C7 (as stated): a "-" after an opening delimiter strips, from the whole
\* output accumulated before the marker, the trailing whitespace back to
\* and including the most recent newline (all trailing whitespace where
\* there is no newline); text emitted after the marker is not altered.
C7_TrimWholeOutput ==
    src.fam = "trim" =>
        /\ Rendered => Ref.ok /\ output = Ref.out
        /\ RaisedInBody => ~Ref.ok

\* C8: a template that reaches its end with an if or for block still open
\* fails to compile with the unmatched-tag error naming the kind of the
\* innermost open block, and no program is produced.
C8_UnterminatedBlockFails ==
    (src.fam = "blocks" /\ ~RefOpen.bad /\ RefOpen.open # << >>) =>
        /\ ~Compiled
        /\ render_function = NoProgram
        /\ phase = "failed" =>
              err = SyntaxErr("Unmatched action tag", KindName(RefOpen.open[Len(RefOpen.open)]))

C8_Witness ==
    /\ src.fam = "blocks"
    /\ RefOpen.open = <<"if", "for">>
    /\ phase = "failed"
    /\ err = SyntaxErr("Unmatched action tag", <<"f", "o", "r">>)
    /\ render_function = NoProgram

\* C9: compilation never fails for want of a context variable; render,
\* when a free variable of the template (a referenced name or filter name
\* that is no loop variable) is absent from the merged context, fails at
\* entry with a lookup error naming such a variable, before any output and
\* also when the reference lies in a branch or loop that would not run.
C9_MissingFreeVariableFailsAtEntry ==
    /\ phase = "failed" => err.kind \notin {"KeyError", "LookupError", "UnboundLocalError"}
    /\ src.fam \in {"for", "if", "pipe", "vars"} => phase # "failed"
    /\ src.fam \in Described =>
          /\ (phase \in {"running", "done"} \/ RaisedInBody)
                => RefFree(src.nodes) \subseteq DOMAIN render_context
          /\ RaisedAtEntry =>
                /\ err.kind = "KeyError"
                /\ err.thing \in RefFree(src.nodes) \ DOMAIN render_context
                /\ machine.result = << >>
                /\ output = << >>

C9_Witness ==
    /\ src.nodes = <<IfNode(<<Arm(Var(Nb), <<Out(FALSE, Var(Nm))>>)>>, FALSE, << >>)>>
    /\ RaisedAtEntry
    /\ Nb \in DOMAIN render_context
    /\ ~Truthy(render_context[Nb])
    /\ Nm \notin DOMAIN render_context
    /\ err = Failure("KeyError", "", Nm)

\* C10: the names bound from the render context at entry are exactly the
\* referenced names minus the names bound by a for anywhere in the
\* template, by name over the whole template: the loop variable of any for
\* is never read from the context, also where it is referred to before or
\* after that loop.
C10_PrologueIsAllMinusLoop ==
    (src.fam \in Described /\ Compiled) =>
        /\ render_function.vars = RefAllNames(src.nodes) \ RefLoopNames(src.nodes)
        /\ render_function.vars \cap RefLoopNames(src.nodes) = {}
        /\ (phase = "running" /\ machine.pc = 1 /\ ~machine.back)
              => DOMAIN machine.locals = RefFree(src.nodes)

C10_Witness ==
    /\ src.nodes = <<Out(FALSE, Var(Nv)), ForNode(Nv, Var(Ne), <<Out(FALSE, Var(Nv))>>)>>
    /\ phase = "ready"
    /\ render_function.vars = {Ne}
    /\ RefAllNames(src.nodes) = {Nv, Ne}


\* The union of the constructor's contexts and the caller's: per name the
\* caller's value, else the value of the last constructor context with it.
RefUnion(cs, call) ==
    [n \in DOMAIN call \cup UNION {DOMAIN cs[i] : i \in 1 .. Len(cs)} |->
        IF n \in DOMAIN call THEN call[n]
        ELSE LET having == {i \in 1 .. Len(cs) : n \in DOMAIN cs[i]}
             IN  cs[CHOOSE i \in having : \A j \in having : j <= i][n]]

\* The meaning of the description over the union of the contexts.
RefOverUnion ==
    LET u == RefUnion(contexts, caller_context)
    IN  RefNodes(src.nodes,
                 [ok |-> TRUE, out |-> << >>,
                  env |-> [n \in (RefFree(src.nodes) \cap DOMAIN u) |-> u[n]]])

\* C11: render evaluates the template against the union of the constructor's
\* contexts (a later one overriding an earlier one) and the context of the
\* call, the value of the call being used for every name present in both.
C11_RenderUsesUnionCallWins ==
    phase \in {"running", "done", "rfailed"} =>
        /\ render_context = RefUnion(contexts, caller_context)
        /\ (Rendered /\ src.fam \in {"for", "if", "pipe", "vars"})
              => RefOverUnion.ok /\ output = RefOverUnion.out

C11_Witness ==
    /\ src.nodes = <<Out(FALSE, Var(Nm))>>
    /\ contexts = <<ContextK, ContextJ>>
    /\ caller_context = Context4
    /\ ContextK[Nm] # ContextJ[Nm] /\ ContextJ[Nm] # Context4[Nm]
    /\ Rendered
    /\ output = <<"m", "m">>


C13_OnlyEngineErrorEscapes ==
    (src.fam = "blocks" /\ text # << >> /\ phase = "failed") => err.kind = "Error"

\* C17: elif and else fail unless the innermost open block is an if; an end
\* tag fails with too-many-ends when nothing is open and with a mismatch
\* when the innermost open block is of another kind, and otherwise closes
\* exactly that block; if and for open exactly one block each.  A template
\* compiles only if its blocks are properly nested.
C17_ControlStackDiscipline ==
    (src.fam = "blocks" /\ RefOpen.why # "no words") =>
        /\ RefOpen.bad => /\ ~Compiled
                          /\ phase = "failed" => err.kind = "Error" /\ err.msg = RefOpen.why
        /\ Compiled => ~RefOpen.bad /\ RefOpen.open = << >>
        /\ (~RefOpen.bad /\ phase = "build" /\ tpos > Len(tokens)) => ops_stack = RefOpen.open
        /\ (~RefOpen.bad /\ phase = "failed") =>
              err.msg \notin {"Mismatched elif", "Mismatched else", "Too many ends",
                              "Mismatched end tag"}

C17_Witness ==
    /\ src.nodes = <<OpenIfText, Open("for", Tag(<<"f", "o", "r", " ", "v", " ", "i", "n", " ", "e">>)),
                     EndIf>>
    /\ phase = "failed"
    /\ err = SyntaxErr("Mismatched end tag", <<"i", "f">>)

(***************************************************************************)
(* C14.  render leaves the template as it found it: from the moment the    *)
(* template is compiled no step changes the constructor's contexts, the    *)
(* stored context, the two variable sets or the compiled function, and no  *)
(* step of a running call changes the caller's mapping; and every call     *)
(* that returns, whatever calls came before it, returns what the compiled  *)
(* function gives for the stored context updated with that call's mapping  *)
(* when run on its own.                                                    *)
(***************************************************************************)
RenderFrame ==
    /\ Compiled => UNCHANGED <<contexts, selfContext, all_vars, loop_vars, render_function,
                               body_code, text>>
    /\ phase = "running" => UNCHANGED <<caller_context, render_context>>

LoneCall == RunProgram(render_function, Merge(selfContext, caller_context))

RECURSIVE RefSets(_)
\* The assignments of a description, in the order of the text.
RefSets(nodes) ==
    IF nodes = << >> THEN << >>
    ELSE LET node == Head(nodes)
             here == CASE node.k = "set" -> <<node>>
                       [] node.k = "for" -> RefSets(node.body)
                       [] OTHER -> << >>
         IN  here \o RefSets(Tail(nodes))

RefSetNames == {RefSets(src.nodes)[i].v : i \in 1 .. Len(RefSets(src.nodes))}

\* The assignment statements of the compiled function, in order.
SetLines == SelectSeq(render_function.lines, LAMBDA l : l.kind = "set")

C16_SetRegistersTarget ==
    (src.fam = "set" /\ Compiled) => RefSetNames \subseteq all_vars

(***************************************************************************)
(* C16, amended.  "set" checks the name and emits the assignment of the    *)
(* expression's value to it, one statement per "set" in the order of the   *)
(* text, and files in the set of all variables the names the expression    *)
(* refers to, not the assigned name: the assigned name is in that set only *)
(* when some expression of the template refers to it.  A rendering gives   *)
(* every later reference the assigned value.                               *)
(***************************************************************************)
C16_SetEmitsAssignmentOnly ==
    (src.fam = "set" /\ Compiled) =>
        /\ all_vars = RefAllNames(src.nodes)
        /\ Len(SetLines) = Len(RefSets(src.nodes))
        /\ \A i \in 1 .. Len(SetLines) :
               /\ SetLines[i].var = RefSets(src.nodes)[i].v
               /\ SetLines[i].expr = ExprCode(FmtExpr(RefSets(src.nodes)[i].e)).code
        /\ Rendered => (Ref.ok /\ output = Ref.out)

\* "set w = y" alone has compiled and rendered: w is assigned and is not
\* among the variables.
C16_Witness ==
    /\ src.nodes = <<SetNode(Nw, Var(Ny))>>
    /\ Rendered
    /\ all_vars = {Ny}
    /\ Len(render_function.lines) = 1
    /\ render_function.lines[1].kind = "set"
    /\ render_function.lines[1].var = Nw

(***************************************************************************)
(* C18.  v.n1.n2... resolves the names left to right: at each name the     *)
(* attribute of the current value if it has one, its key of that name only *)
(* otherwise, and a callable so obtained is called with no arguments       *)
(* before the next name.  The rendering prints the value so resolved, and  *)
(* raises exactly when some name is neither attribute nor key or the call  *)
(* fails.                                                                  *)
(***************************************************************************)
C18_DottedAccessAttributeThenKey ==
    src.fam = "dots" =>
        /\ Rendered => Ref.ok /\ output = Ref.out
        /\ RaisedInBody => ~Ref.ok
        /\ (phase = "done" \/ RaisedInBody) =>
              Eval(render_function.lines[1].expr, render_context)
                  = IF Ref.ok THEN Ok(RefAtom(src.nodes[1].e.seed, render_context).v)
                    ELSE Bad(err)

\* y.k.n on y = {"k": P()}: the key k of the dict, then the attribute n of
\* the instance, which also has a key n.
C18_Witness ==
    /\ src.nodes = <<Out(FALSE, E(ADots(Ny, <<Nk, Nn>>)))>>
    /\ caller_context = Context5
    /\ Rendered
    /\ output = <<"A">>

\* x.f.n on the instance: the attribute f is callable, is called, and n is
\* the key of the dict it returns.
C18_WitnessCall ==
    /\ src.nodes = <<Out(FALSE, E(ADots(Nx, <<Nf, Nn>>)))>>
    /\ caller_context = Context5
    /\ Rendered
    /\ output = <<"M">>

(***************************************************************************)
(* C19.  The stripped text of an expression is compiled by the first rule  *)
(* that applies: empty text is the empty literal; text with "|" anywhere   *)
(* is a chain of calls, one per "|"; text with "." anywhere (and no "|")   *)
(* is a dotted access with one name per "."; text that is an integer is a  *)
(* literal; any other text is a name, and fails to compile unless it is a  *)
(* valid one.  So text with "." is never compiled as a number or a name:   *)
(* "1.5" is the dotted access of the name 5 on the literal 1.              *)
(***************************************************************************)
RefText == Strip(src.nodes[1].s)

RefCount(e, c) == Cardinality({i \in 1 .. Len(e) : e[i] = c})

RefIsNumber(e) == e # << >> /\ \A i \in 1 .. Len(e) : e[i] \in DigitChars

RefIsName(e) ==
    /\ e # << >>
    /\ e[1] \in LetterChars \cup {"_"}
    /\ \A i \in 1 .. Len(e) : e[i] \in LetterChars \cup DigitChars \cup {"_"}

RefClass(e) ==
    CASE e = << >>             -> "empty"
      [] RefCount(e, "|") > 0  -> "pipe"
      [] RefCount(e, ".") > 0  -> "dots"
      [] RefIsNumber(e)        -> "number"
      [] OTHER                 -> "name"

RECURSIVE CallDepth(_)
\* The calls wrapped around the piped value.
CallDepth(code) == IF code.op = "call" THEN 1 + CallDepth(code.args[1]) ELSE 0

\* The compiled expression has the form of the class of the text e.
RefForm(code, e) ==
    CASE RefClass(e) = "empty"  -> code.op = "lit" /\ code.text = <<"'", "'">>
      [] RefClass(e) = "pipe"   -> code.op = "call" /\ CallDepth(code) = RefCount(e, "|")
      [] RefClass(e) = "dots"   -> /\ code.op = "dots"
                                   /\ Len(code.names) = RefCount(e, ".")
                                   /\ code.base.op \in {"lit", "name"}
      [] RefClass(e) = "number" -> code.op = "lit" /\ PyLiteral(code.text) = e
      [] OTHER                  -> code.op = "name" /\ code.id = e

C19_FirstRuleThatApplies ==
    src.fam = "expr" =>
        /\ Compiled =>
              /\ Len(render_function.lines) = 1
              /\ render_function.lines[1].kind = "append"
              /\ RefForm(render_function.lines[1].expr, RefText)
        /\ phase = "failed" =>
              /\ err.kind = "Error"
              /\ RefClass(RefText) \in {"pipe", "dots", "name"}
        /\ (RefClass(RefText) = "name" /\ phase \notin {"new", "build"}) =>
              IF RefIsName(RefText) THEN Compiled
              ELSE phase = "failed" /\ err = SyntaxErr("Not a valid name", RefText)

\* "1.5" has compiled to do_dots('1', '5').
C19_Witness ==
    /\ src.nodes = <<OutRaw(<<"1", ".", "5">>)>>
    /\ phase = "ready"
    /\ render_function.lines[1].expr
         = [op |-> "dots", base |-> [op |-> "lit", text |-> <<"'", "1", "'">>],
            names |-> << <<"'", "5", "'">> >>]

\* "x | cat(a|b)" is split at the "|" between the parentheses.
C19_WitnessPipeInParentheses ==
    /\ src.nodes = <<OutRaw(<<"x", " ", "|", " ", "c", "a", "t", "(", "a", "|", "b", ")">>)>>
    /\ phase = "failed"
    /\ err = SyntaxErr("Don't understand pipe", <<"c", "a", "t", "(", "a">>)

(***************************************************************************)
(* C20.  Every name of the compiled program (a variable read, a function   *)
(* called, the target of an assignment, the variable of a loop, a name the *)
(* prologue binds) is an identifier, and every literal of the program is a *)
(* well-formed quoted string.  A template with a text that is not an       *)
(* identifier in the place of a name never compiles: where that is its     *)
(* only fault, construction raises the invalid-name error for that text.   *)
(***************************************************************************)
RECURSIVE CodeNames(_)
\* The names an expression of the program uses as variables.
CodeNames(code) ==
    CASE code.op = "name" -> {code.id}
      [] code.op = "call" ->
           {code.fn} \cup UNION {CodeNames(code.args[i]) : i \in 1 .. Len(code.args)}
      [] code.op = "dots" -> CodeNames(code.base)
      [] OTHER -> {}

RECURSIVE CodeLiterals(_)
\* The quoted texts of an expression of the program.
CodeLiterals(code) ==
    CASE code.op = "lit" -> {code.text}
      [] code.op = "call" -> UNION {CodeLiterals(code.args[i]) : i \in 1 .. Len(code.args)}
      [] code.op = "dots" ->
           CodeLiterals(code.base) \cup {code.names[i] : i \in 1 .. Len(code.names)}
      [] OTHER -> {}

LineNames(line) ==
    CodeNames(line.expr) \cup (IF line.kind \in {"set", "for"} THEN {line.var} ELSE {})

ProgramNames ==
    render_function.vars
        \cup UNION {LineNames(render_function.lines[i]) : i \in 1 .. Len(render_function.lines)}

ProgramLiterals ==
    UNION {CodeLiterals(render_function.lines[i].expr) : i \in 1 .. Len(render_function.lines)}

RECURSIVE QuotedBody(_, _, _)
\* From position i on, b holds no bare quote q, no bare newline and no
\* backslash without a character after it.
QuotedBody(b, i, q) ==
    IF i > Len(b) THEN TRUE
    ELSE IF b[i] = "\\" THEN i < Len(b) /\ QuotedBody(b, i + 2, q)
    ELSE b[i] \notin {q, "\n"} /\ QuotedBody(b, i + 1, q)

\* t is one Python string literal.
RefQuoted(t) ==
    /\ Len(t) >= 2
    /\ t[1] \in {"'", "\""}
    /\ t[Len(t)] = t[1]
    /\ QuotedBody(SubSeq(t, 2, Len(t) - 1), 1, t[1])

C20_OnlyIdentifiersBecomeNames ==
    /\ Compiled =>
          /\ \A n \in ProgramNames : RefIsName(n)
          /\ \A t \in ProgramLiterals : RefQuoted(t)
    /\ \A place \in NamePlaces, n \in NameTexts :
          (src.nodes = <<NameAt(place, n)>> /\ src.fam = "names" /\ phase \notin {"new", "build"}) =>
              IF RefIsName(n) THEN Compiled /\ n \in ProgramNames
              ELSE phase = "failed" /\ err = SyntaxErr("Not a valid name", n)

\* "set a;b = x" has been refused.
C20_Witness ==
    /\ src.nodes = <<NameAt("set", <<"a", ";", "b">>)>>
    /\ phase = "failed"
    /\ err = SyntaxErr("Not a valid name", <<"a", ";", "b">>)

(***************************************************************************)
(* C15.  As stated: when a driver has worked through the sections of a     *)
(* rendering (writing for real, with force, and without an error), every   *)
(* section "file:<relative-path>" is a file at <relative-path> under the   *)
(* output directory of the source, holding that section's text; so         *)
(* sections with different relative paths are different files.             *)
(***************************************************************************)
DriverDone ==
    /\ driver.kind # "none"
    /\ driver.pos > Len(driver.sections)
    /\ driver.kind = "main" => driver.finished

\* The output directory for the driver's source.
RefOutputDir ==
    IF driver.kind = "app" /\ Dirname(driver.relpath) # << >>
    THEN driver.out_dir \o <<"/">> \o Dirname(driver.relpath)
    ELSE driver.out_dir

RefFileSections ==
    {i \in 1 .. Len(driver.sections) : StartsWith(driver.sections[i].name, FilePrefix)}

\* <relative-path> under the output directory.
RefSectionPath(i) ==
    RefOutputDir \o <<"/">> \o SubSeq(driver.sections[i].name, 6, Len(driver.sections[i].name))

C15_EachFileSectionAtItsPath ==
    (DriverDone /\ ~driver.dry /\ driver.force /\ driver.err = "none") =>
        \A i \in RefFileSections :
            /\ RefSectionPath(i) \in DOMAIN driver.fs.files
            /\ driver.fs.files[RefSectionPath(i)].content = driver.sections[i].content

(***************************************************************************)
(* C21.  As stated: a template A {# c #} B compiles exactly when A B       *)
(* does, and for every context renders what A B renders (the same text, or *)
(* a failure where A B fails).  (A B is not the empty text.)               *)
(***************************************************************************)
WithoutComments == SelectSeq(src.nodes, LAMBDA node : node.k # "comment")

\* The outcome of constructing the template A B.
Uncommented == Compile(FmtNodes(WithoutComments))

C21_CommentHasNoEffect ==
    (src.fam = "comment" /\ WithoutComments # << >>) =>
        /\ phase = "failed" => Uncommented.err # NoErr
        /\ Compiled => Uncommented.err = NoErr
        /\ Rendered =>
              RunProgram(Uncommented.program, render_context)
                  = [ok |-> TRUE, out |-> output, kind |-> "none"]
        /\ phase = "rfailed" => ~RunProgram(Uncommented.program, render_context).ok

(***************************************************************************)
(* C22.  As stated: a pipe segment whose parentheses are unbalanced (a "(" *)
(* never closed, a ")" never opened) or that has text after its closing    *)
(* parenthesis never compiles: construction raises the engine's error and  *)
(* no program is produced.                                                 *)
(***************************************************************************)
RefSegment == Strip(SubSeq(src.nodes[1].s, 3, Len(src.nodes[1].s)))

\* "(" less ")" among the first n characters.
RefDepth(seg, n) ==
    Cardinality({i \in 1 .. n : seg[i] = "("}) - Cardinality({i \in 1 .. n : seg[i] = ")"})

RefUnbalanced(seg) ==
    \/ RefDepth(seg, Len(seg)) # 0
    \/ \E n \in 1 .. Len(seg) : RefDepth(seg, n) < 0

RefTextAfterClose(seg) == RefCount(seg, ")") > 0 /\ seg[Len(seg)] # ")"

C22_UnbalancedPipeNeverCompiles ==
    (/\ src.fam = "parens"
     /\ RefUnbalanced(RefSegment) \/ RefTextAfterClose(RefSegment)
     /\ phase \notin {"new", "build"}) =>
        /\ phase = "failed"
        /\ err.kind = "Error"
        /\ render_function = NoProgram


(***************************************************************************)
(* C23: after each token the token loop has processed, the body builder's  *)
(* indentation is its initial indentation (INDENT_SIZE, the level of the   *)
(* function body) plus INDENT_SIZE for every open block; in accepted and   *)
(* rejected templates alike no dedent leaves the body builder below its    *)
(* initial level; and the outer builder is at indentation 0 when the       *)
(* program is materialised.                                                *)
(***************************************************************************)
C23_IndentationFollowsBlockDepth ==
    /\ phase = "build" => body_code.indent = INDENT_SIZE + INDENT_SIZE * Len(ops_stack)
    /\ (phase # "new" /\ text # << >>) => body_code.low >= INDENT_SIZE
    /\ Compiled => codeIndent = 0 /\ body_code.indent = INDENT_SIZE

\* A rejected template in which a trim marker, a nested block and an else
\* branch were all processed before the rejection.
C23_Witness ==
    /\ phase = "failed"
    /\ \E i \in DOMAIN body_code.lines : body_code.lines[i].kind = "else"
    /\ \E i \in DOMAIN body_code.lines : body_code.lines[i].ind >= 2 * INDENT_SIZE

(***************************************************************************)
(* C24.  A name that "set" assigns and that some expression of the         *)
(* template refers to, and that no "for" binds, is bound by the prologue   *)
(* like any other name: the compiled function lists it among the names it  *)
(* takes from the render context, and a rendering whose context lacks it   *)
(* fails on entry with a KeyError for a missing name, before any statement *)
(* runs, wherever the references stand relative to the assignment.         *)
(***************************************************************************)
\* The assigned names that an expression refers to and no loop binds.
RefAssignedAndUsed == (RefSetNames \cap RefAllNames(src.nodes)) \ RefLoopNames(src.nodes)

C24_SetDoesNotExemptName ==
    (src.fam = "set" /\ Compiled) =>
        \A n \in RefAssignedAndUsed :
            /\ n \in render_function.vars
            /\ (phase # "ready" /\ n \notin DOMAIN render_context) =>
                   /\ RaisedAtEntry
                   /\ err.kind = "KeyError"
                   /\ err.thing \in RefFree(src.nodes) \ DOMAIN render_context
                   /\ output = << >>

\* "set m = x" followed by "{{ m }}", rendered with x and without m: the
\* rendering failed on m although the reference follows the assignment.
C24_Witness ==
    /\ src.nodes = <<SetNode(Nm, Var(Nx)), Out(FALSE, Var(Nm))>>
    /\ Nx \in DOMAIN render_context
    /\ Nm \notin DOMAIN render_context
    /\ RaisedAtEntry
    /\ err = Failure("KeyError", "", Nm)

(***************************************************************************)
(* C25.  "seed | f()" compiles to the call of f with two arguments, the    *)
(* compiled seed and the quoted empty string that the empty-expression     *)
(* rule gives for the empty argument text, and not to the call of f with   *)
(* the seed alone; a rendering calls f with the seed's value and "".       *)
(***************************************************************************)
\* The seed and the filter of the one marker of the description.
RefSeed == src.nodes[1].e.seed

RefFilter == src.nodes[1].e.filters[1].f

RefSeedCode == NameCode(RefSeed.n)

C25_EmptyParenthesesPassEmptyString ==
    (src.fam = "emptyargs" /\ phase \notin {"new", "build"}) =>
        /\ Compiled
        /\ Len(render_function.lines) = 1
        /\ render_function.lines[1].expr =
               [op |-> "call", fn |-> RefFilter, args |-> <<RefSeedCode, LitCode(<< >>)>>]
        /\ render_function.lines[1].expr # PipeCall(RefFilter, RefSeedCode, << >>)
        /\ Rendered => (Ref.ok /\ output = Ref.out)
        /\ (phase = "rfailed" /\ ~RaisedAtEntry) => ~Ref.ok

\* "x | add()" rendered with a string x: add received x and "" and gave x,
\* where add of x alone fails.
C25_Witness ==
    /\ src.nodes = <<Out(FALSE, Piped(AName(Nx), <<Filter(NAdd, <<AEmpty>>)>>))>>
    /\ text = <<"{", "{", " ", "x", " ", "|", " ", "a", "d", "d", "(", ")", " ", "}", "}">>
    /\ Rendered
    /\ render_context[Nx].t = "str"
    /\ render_context[Nx].v # << >>
    /\ output = render_context[Nx].v
    /\ ~CallFn(NAdd, <<render_context[Nx]>>).ok

(***************************************************************************)
(* C26.  Dry-run safety: in a run with --dry (main.py, app.py) or without  *)
(* --live (applytmpl.py) the output file system stays what it was before   *)
(* the run, whatever the sections and the entries processed: no file,      *)
(* directory or link under the output directory is created, removed or     *)
(* written, and no call fails; the run only adds log lines.                *)
(***************************************************************************)
C26_DryRunLeavesOutputAlone ==
    driver.dry => (driver.fs = driver.before /\ driver.err = "none")

\* A dry run of applytmpl.py over a directory has ended after logging a link
\* to copy and a section to build, neither of which is in the output.
C26_Witness ==
    /\ driver.kind = "process"
    /\ driver.dry
    /\ driver.finished
    /\ \E i \in 1 .. Len(driver.log) :
          /\ driver.log[i].status = "SYMLN"
          /\ driver.log[i].target \notin DOMAIN driver.fs.files
    /\ \E i \in 1 .. Len(driver.log) :
          /\ driver.log[i].status = "BUILD"
          /\ driver.log[i].target \notin DOMAIN driver.fs.files
    /\ driver.log[Len(driver.log)].status = "DRYRN"
    /\ driver.fs = driver.before

(***************************************************************************)
(* C27.  As stated, for the sections main.py has saved in a live run: the  *)
(* target is rewritten (it is a regular file holding the section's text,   *)
(* written in this run, and BUILD was logged) if and only if force is set, *)
(* or the target was a symbolic link, or it was not an existing regular    *)
(* file, or the source's modification time is strictly greater than the    *)
(* target's; otherwise NOCHG was logged and the target is as it was.       *)
(***************************************************************************)
\* The sections save has been called for.
RefSaved == {i \in RefFileSections : i < driver.pos}

\* The target of section i, and the decision read off the file system as it
\* was before the run (the targets of different sections are different).
RefTarget(i) == SectionTarget(driver, driver.sections[i].name)

RefRebuild(i) ==
    \/ driver.force
    \/ IsLink(driver.before, RefTarget(i))
    \/ ~IsFile(driver.before, RefTarget(i))
    \/ driver.stime > GetMTime(driver.before, RefTarget(i))

RefLogged(status, i) ==
    \E k \in 1 .. Len(driver.log) :
        driver.log[k] = [status |-> status, target |-> RefTarget(i)]

\* What is at path p: its file or link, that it is a directory, or nothing.
RefAt(fs, p) ==
    IF p \in DOMAIN fs.files THEN fs.files[p]
    ELSE IF p \in fs.dirs THEN [kind |-> "dir"] ELSE [kind |-> "none"]

C27_RebuildDecision ==
    (driver.kind = "main" /\ ~driver.dry) =>
        \A i \in RefSaved :
            IF RefRebuild(i)
            THEN /\ RefLogged("BUILD", i)
                 /\ RefAt(driver.fs, RefTarget(i)) = FileOf(driver.sections[i].content, WriteTime)
            ELSE /\ RefLogged("NOCHG", i)
                 /\ RefAt(driver.fs, RefTarget(i)) = RefAt(driver.before, RefTarget(i))

(***************************************************************************)
(* C28.  As stated: in a --walk scan no directory below the root whose     *)
(* name matches an --exclude pattern is entered, whatever its siblings, so *)
(* no input lies inside such a directory; and no file whose name matches   *)
(* an exclude pattern is collected.                                        *)
(***************************************************************************)
\* The paths the scan has entered or collected.
RefScanned ==
    {driver.visited[k] : k \in 1 .. Len(driver.visited)}
        \cup {driver.inputs[k] : k \in (Len(driver.initial_inputs) + 1) .. Len(driver.inputs)}

C28_ExcludedNamesArePruned ==
    (driver.kind = "walk" /\ driver.started) =>
        \A p \in RefScanned :
            \A k \in 2 .. Len(p) : ~AnyMatch(p[k], driver.exclude)

(***************************************************************************)
(* C29.  For a source of type "auto", once load has read the body: the     *)
(* lines up to and including the first blank line (or all of them) were    *)
(* consumed as headers; comments and lines without ":" left no trace; meta *)
(* holds, under each lower-cased, stripped name, the stripped value of the *)
(* last header of that name; the type is the value of the "type" header if *)
(* that is one of TYPES and "unknown" otherwise; the body is the text      *)
(* after the consumed lines; the source was opened once; and no later call *)
(* of load, meta, body or data changes type, meta, body or data or opens   *)
(* the source again.                                                       *)
(***************************************************************************)
RefLines == driver.lines

RefIsBlank(i) == Strip(RefLines[i]) = << >>

\* The first blank line, or one past the last line.
RefBlank ==
    IF \E i \in 1 .. Len(RefLines) : RefIsBlank(i)
    THEN CHOOSE i \in 1 .. Len(RefLines) :
             RefIsBlank(i) /\ \A j \in 1 .. (i - 1) : ~RefIsBlank(j)
    ELSE Len(RefLines) + 1

\* The header lines that are neither comments nor without ":".
RefHeaders ==
    {i \in 1 .. (RefBlank - 1) : Strip(RefLines[i])[1] # "#" /\ Contains(RefLines[i], <<":">>)}

RefHeaderName(i) == Lower(Strip(SubSeq(RefLines[i], 1, Find(RefLines[i], <<":">>, 0))))

RefHeaderValue(i) ==
    Strip(SubSeq(RefLines[i], Find(RefLines[i], <<":">>, 0) + 2, Len(RefLines[i])))

RefMeta ==
    [n \in {RefHeaderName(i) : i \in RefHeaders} |->
        RefHeaderValue(CHOOSE i \in RefHeaders :
                           /\ RefHeaderName(i) = n
                           /\ \A j \in RefHeaders : RefHeaderName(j) = n => j <= i)]

RefType ==
    IF <<"t", "y", "p", "e">> \in DOMAIN RefMeta /\ RefMeta[<<"t", "y", "p", "e">>] \in TYPES
    THEN RefMeta[<<"t", "y", "p", "e">>]
    ELSE <<"u", "n", "k", "n", "o", "w", "n">>

\* The text after the consumed lines: what the whole text ends with, its
\* length the lengths of the lines left.
RefBodyLen ==
    LET left == {i \in 1 .. Len(RefLines) : i > RefBlank}
        RECURSIVE Sum(_)
        Sum(S) == IF S = {} THEN 0
                  ELSE LET i == CHOOSE j \in S : TRUE IN Len(RefLines[i]) + 1 + Sum(S \ {i})
    IN  IF left = {} THEN 0
        ELSE Sum(left) - (IF driver.content[Len(driver.content)] = "\n" THEN 0 ELSE 1)

RefBody == SubSeq(driver.content, Len(driver.content) - RefBodyLen + 1, Len(driver.content))

RefAuto == driver.kind = "source" /\ driver.given = <<"a", "u", "t", "o">>

RefLoaded == RefAuto /\ driver.body # None

C29_LoadedFrame ==
    RefLoaded =>
        /\ driver'.type = driver.type
        /\ driver'.meta = driver.meta
        /\ driver'.body = driver.body
        /\ driver'.data = driver.data
        /\ driver'.opens = driver.opens

C29_LoadReadsHeadersOnce ==
    /\ [](RefLoaded =>
             /\ driver.meta = RefMeta
             /\ driver.type = RefType
             /\ driver.body = RefBody
             /\ driver.opens = 1)
    /\ []((RefAuto /\ driver.calls > 0) => driver.body # None)
    /\ [][C29_LoadedFrame]_vars

\* "Type :template", "A: b:c", a comment... read once and used three times:
\* the headers under "type" and "a", the type "template", the body after the
\* blank line.
C29_Witness ==
    /\ RefLoaded
    /\ driver.calls = MaxCalls
    /\ driver.opens = 1
    /\ driver.lines = << <<"T", "y", "p", "e", " ", ":", "t", "e", "m", "p", "l", "a", "t", "e">>,
                         << >>,
                         <<"A", ":", " ", "b", ":", "c">> >>
    /\ driver.content[Len(driver.content)] = "\n"
    /\ driver.type = <<"t", "e", "m", "p", "l", "a", "t", "e">>
    /\ driver.meta = (<<"t", "y", "p", "e">> :> <<"t", "e", "m", "p", "l", "a", "t", "e">>)
    /\ driver.body = <<"A", ":", " ", "b", ":", "c", "\n">>
    /\ driver.got = driver.body

(***************************************************************************)
(* C30.  sorted(meta) gives a list that is a permutation of the sources    *)
(* and is ordered by the keys, the first key the most significant: of two  *)
(* sources the one comes first that is smaller on the first key on which   *)
(* they differ (greater if the key is written "d:"), a missing meta value  *)
(* counting as "" and relpath as the relative path; sources equal on all   *)
(* keys come in the order they have in the list; the list itself keeps     *)
(* its order.                                                              *)
(***************************************************************************)
RefKeyValue(obj, name) ==
    IF name = Krelpath THEN (IF obj.relpath = None THEN << >> ELSE obj.relpath)
    ELSE IF name \in DOMAIN obj.meta THEN obj.meta[name] ELSE << >>

\* x is before y on key k.
RefBeforeOn(x, y, k) ==
    IF driver.keys[k].prefix = <<"d", ":">>
    THEN StrLess(RefKeyValue(y, driver.keys[k].name), RefKeyValue(x, driver.keys[k].name))
    ELSE StrLess(RefKeyValue(x, driver.keys[k].name), RefKeyValue(y, driver.keys[k].name))

RefEqualOn(x, y, k) == RefKeyValue(x, driver.keys[k].name) = RefKeyValue(y, driver.keys[k].name)

RefPrecedes(x, y) ==
    \/ \E k \in 1 .. Len(driver.keys) :
          /\ \A j \in 1 .. (k - 1) : RefEqualOn(x, y, j)
          /\ RefBeforeOn(x, y, k)
    \/ /\ \A k \in 1 .. Len(driver.keys) : RefEqualOn(x, y, k)
       /\ x.id < y.id

C30_SortedByKeysStable ==
    (driver.kind = "list" /\ driver.done) =>
        /\ Len(driver.result) = Len(driver.sources)
        /\ \A i \in 1 .. Len(driver.sources) :
              \E j \in 1 .. Len(driver.result) : driver.result[j] = driver.sources[i]
        /\ \A i, j \in 1 .. Len(driver.result) :
              i < j => RefPrecedes(driver.result[i], driver.result[j])
        /\ \A i \in 1 .. Len(driver.sources) : driver.sources[i].id = i

\* Three sources sorted by "d:t,w": the one without t last, the two with t
\* "a" in the order of w, which is not the order of the list.
C30_Witness ==
    /\ driver.kind = "list"
    /\ driver.done
    /\ driver.by = <<"d", ":", "t", ",", "w">>
    /\ Len(driver.sources) = 3
    /\ Kt \notin DOMAIN driver.sources[1].meta
    /\ driver.sources[2].meta = (Kt :> <<"a">>) @@ (Kw :> <<"b">>)
    /\ driver.sources[3].meta = (Kt :> <<"a">>) @@ (Kw :> <<"a">>)
    /\ driver.result = <<driver.sources[3], driver.sources[2], driver.sources[1]>>
====
